---- MODULE Spec2Model ----
(***************************************************************************)
(* A model of templeton, the worker that keeps a search index in step with *)
(* the AVU metadata of a relational database.                              *)
(*                                                                         *)
(*   - the streaming object cursor      (database/database.go)             *)
(*   - the bulk write buffer            (esutils/bulkindexer.go)           *)
(*   - purge, rebuild, reindex, the incremental update                     *)
(*                                      (elasticsearch/elasticsearch.go)   *)
(*   - the mode dispatcher and its message handlers (main.go)              *)
(*                                                                         *)
(* Identifiers (uuids in the program) are natural numbers; the empty       *)
(* string, which the program uses for "no id", is EmptyId.                 *)
(***************************************************************************)
EXTENDS Integers, Sequences, FiniteSets, TLC

\* ------------------------------------------------------------------------
\* Bounds of the model
\* ------------------------------------------------------------------------

\* longest row stream handed to the cursor on its own
MaxRows == 4
\* number of distinct targetIDs in those row streams
MaxTargets == 3
\* calls of Next on one cursor
MaxPulls == 6
\* largest bulkSize a BulkIndexer is created with on its own
MaxBulkSize == 3
\* calls of Add on one BulkIndexer on its own
MaxAdds == 5
\* batch submissions of one BulkIndexer on its own
MaxSubmits == 4
\* AVU rows the avus table can hold: their ids are 1..MaxAvus
MaxAvus == 2
\* objects (files, folders) AVUs can be attached to: their ids follow
MaxObjs == 2
\* documents the search index holds when the model starts
MaxDocs0 == 2
\* hits of one page of the purge scroll
PageSize == 2
\* I/O failures (database, search index) met in one behaviour
MaxFaults == 1
\* Reindex runs in a row
MaxRuns == 2
\* bulkSize of the buffers of PurgeIndex and IndexEverything: stands for the
\* 1000 of elasticsearch.go, scaled down so that the threshold is reached
BulkSize == 2

\* handlers of incremental mode that run at the same time: stands for the
\* 100 of main.go, scaled down
MaxHandlers == 1
\* deliveries the broker hands to the handlers in one behaviour
MaxDeliveries == 2
\* changes of the avus table between deliveries
MaxChanges == 1

\* messages published to the queue a mode consumes
MaxMsgs == 2
\* deliveries of one message the broker is followed through
MaxTries == 3

\* AVUs of the tables GetObjectAVUs is followed through on its own
MaxNest == 3

\* deliveries on the events queue the process is followed through
MaxPings == 2

\* documents in the index PurgeIndex is followed through on its own
MaxPurgeDocs == 3
\* handlers of incremental mode running at once in SpecPair
MaxPair == 2

\* documents in the index at the start of SpecMixed
MaxMixedDocs == 1

\* the TargetId of newObjectCursor's initial lastRow: the empty string
EmptyId == 0

\* ------------------------------------------------------------------------
\* State
\* ------------------------------------------------------------------------
VARIABLES
    rows,       \* the *sql.Rows of the cursor: its data, position and faults
    o,          \* the objectCursor: lastRow, moreRows, anyRows
    groups,     \* history: every value Next returned with a nil error
    lastErr,    \* history: what the last call of Next returned as error
    errSeen,    \* history: some call of Next returned an error other than EOS
    pulls,      \* history: number of calls of Next
    indexer,    \* the BulkIndexer: bulkSize and the queue of its bulkService
    submitted,  \* history: every batch handed to the search index, in order
    lastOp,     \* history: the last call on the indexer and what it returned
    adds,       \* history: number of calls of Add
    db,         \* the avus table of the database
    index,      \* the documents of the search index
    pc,         \* where the process running Reindex stands
    phase,      \* which phase of Reindex it is in
    ptypes,     \* PurgeIndex: the indexed types still to purge
    scroll,     \* PurgeType: the scroll over the documents of one type
    hits,       \* PurgeType: the hits of the current page still to visit
    faults,     \* history: number of I/O failures met so far
    index0,     \* history: the index when the current Reindex started
    ends,       \* history: the index at the end of each finished Reindex
    done,       \* history: the phases the current Reindex has finished
    handler,    \* incremental mode: each running handler's position and locals
    settled,    \* history: the Reject and Ack calls on each handler's delivery
    sent,       \* history: the requests each handler sent to the search index
    hist,       \* history: what each handler's IndexOne started from and met
    delivered,  \* history: number of deliveries handed to handlers
    changes,    \* history: number of changes of the avus table
    broker,     \* the messages of the queue the mode consumes, as the broker holds them
    running,    \* periodic mode: the messages whose handler is running
    steps,      \* history: what each turn of the loops of the current Reindex did
    proc,       \* main: its flags, where it stands, what it opened and did
    found       \* history: the last call of GetAVU, its argument and result

cursorVars == <<rows, o, groups, lastErr, errSeen, pulls>>
cursorHist == <<groups, lastErr, errSeen, pulls>>
bulkVars == <<indexer, submitted, lastOp, adds>>
bulkHist == <<lastOp, adds>>
reindexVars == <<pc, phase, ptypes, scroll, hits, index0, ends, done, steps>>
sysVars == <<db, index, faults, pc, phase, ptypes, scroll, hits, index0, ends, done,
             steps>>
mainVars == <<proc, found>>
envVars == <<broker, running, proc, found>>
incVars == <<handler, settled, sent, hist, delivered, changes>>

vars == <<rows, o, groups, lastErr, errSeen, pulls,
          indexer, submitted, lastOp, adds,
          db, index, pc, phase, ptypes, scroll, hits, faults, index0, ends, done,
          handler, settled, sent, hist, delivered, changes,
          broker, running, steps, proc, found>>

\* ------------------------------------------------------------------------
\* database.go: the row stream (database/sql) and the objectCursor
\* ------------------------------------------------------------------------

\* One AVU row of a result set: the columns the program reads (the id of the
\* AVU, the id and the type of what it is attached to).
Row(id, target, type) == [ID |-> id, TargetId |-> target, TargetType |-> type]

RECURSIVE SortedFrom(_, _)
\* the sequences of length n of targets >= lo in non-decreasing order
SortedFrom(n, lo) ==
    IF n = 0 THEN {<<>>}
    ELSE UNION {{<<t>> \o s : s \in SortedFrom(n - 1, t)} : t \in lo..MaxTargets}

\* ORDER BY target_id: the row streams the query can hand to the cursor,
\* row i of a stream carrying id i
SortedStreams ==
    {[i \in 1..Len(ts) |-> Row(i, ts[i], "file")] :
        ts \in UNION {SortedFrom(n, 1) : n \in 0..MaxRows}}

\* A result set: the rows, how many of them have been stepped over, and the
\* fault the connection will meet: failKind "iter" makes the step onto row
\* failAt fail (rows.Next() false, rows.Err() non-nil), failKind "scan" makes
\* the Scan of row failAt fail.
NewRows(data, failKind, failAt) ==
    [data |-> data, pos |-> 0, failKind |-> failKind, failAt |-> failAt,
     err |-> FALSE]

\* rows.Next(): step onto the next row, if there is one and the step succeeds
RowsNext(r) ==
    IF r.err \/ r.pos >= Len(r.data) + 1 THEN [rows |-> r, ok |-> FALSE]
    ELSE IF r.failKind = "iter" /\ r.failAt = r.pos + 1
         THEN [rows |-> [r EXCEPT !.err = TRUE], ok |-> FALSE]
    ELSE IF r.pos = Len(r.data)
         THEN [rows |-> [r EXCEPT !.pos = Len(r.data) + 1], ok |-> FALSE]
    ELSE [rows |-> [r EXCEPT !.pos = r.pos + 1], ok |-> TRUE]

\* avuRecordFromRow: Scan of the row rows.Next() stepped onto
avuRecordFromRow(r) ==
    [ar |-> r.data[r.pos], err |-> r.failKind = "scan" /\ r.failAt = r.pos]

newObjectCursor ==
    [lastRow |-> Row(EmptyId, EmptyId, ""), moreRows |-> TRUE, anyRows |-> FALSE]

\* the test of Next's loop that keeps a row in the group being built
SameGroupDropsFirst(last, ar) == last.TargetId = ar.TargetId
SameGroupNever(last, ar) == FALSE
SameGroup(last, ar) == last.TargetId = EmptyId \/ last.TargetId = ar.TargetId

\* the test at the end of Next that turns an empty stream into EOS
NoRowsAtAllNever(rowsErr, anyRows) == FALSE
NoRowsAtAll(rowsErr, anyRows) == ~rowsErr /\ ~anyRows

RECURSIVE NextLoop(_, _, _)
\* the for loop of Next; scanErr is the early return on a failed Scan
NextLoop(r, c, retval) ==
    IF ~c.moreRows THEN [rows |-> r, o |-> c, retval |-> retval, scanErr |-> FALSE]
    ELSE LET n == RowsNext(r) IN
         IF ~n.ok
         THEN [rows |-> n.rows, o |-> [c EXCEPT !.moreRows = FALSE],
               retval |-> retval, scanErr |-> FALSE]
         ELSE LET c1 == [c EXCEPT !.anyRows = TRUE]
                  s == avuRecordFromRow(n.rows) IN
              IF s.err
              THEN [rows |-> n.rows, o |-> c1, retval |-> retval, scanErr |-> TRUE]
              ELSE IF SameGroup(c1.lastRow, s.ar)
              THEN NextLoop(n.rows, [c1 EXCEPT !.lastRow = s.ar],
                            Append(retval, s.ar))
              ELSE [rows |-> n.rows, o |-> [c1 EXCEPT !.lastRow = s.ar],
                    retval |-> retval, scanErr |-> FALSE]

\* (variant) Next returning the rows gathered so far, without the error,
\* when a Scan fails
CursorNextKeepsPartial(r, c) ==
    IF ~c.moreRows THEN [rows |-> r, o |-> c, retval |-> <<>>, err |-> "EOS"]
    ELSE LET first == IF c.lastRow.TargetId # EmptyId THEN <<c.lastRow>> ELSE <<>>
             l == NextLoop(r, c, first) IN
         IF NoRowsAtAll(l.rows.err, l.o.anyRows)
         THEN [rows |-> l.rows, o |-> l.o, retval |-> <<>>, err |-> "EOS"]
         ELSE [rows |-> l.rows, o |-> l.o, retval |-> l.retval,
               err |-> IF l.rows.err THEN "err" ELSE "nil"]

\* (variant) Next without its test of moreRows on entry
CursorNextNoGuard(r, c) ==
    LET first == IF c.lastRow.TargetId # EmptyId THEN <<c.lastRow>> ELSE <<>>
        l == NextLoop(r, c, first) IN
    IF l.scanErr
    THEN [rows |-> l.rows, o |-> l.o, retval |-> <<>>, err |-> "err"]
    ELSE IF NoRowsAtAll(l.rows.err, l.o.anyRows)
    THEN [rows |-> l.rows, o |-> l.o, retval |-> <<>>, err |-> "EOS"]
    ELSE [rows |-> l.rows, o |-> l.o, retval |-> l.retval,
          err |-> IF l.rows.err THEN "err" ELSE "nil"]

\* objectCursor.Next: err is "nil", "EOS" or "err"; retval is nil (<<>>)
\* whenever the code returns nil
CursorNext(r, c) ==
    IF ~c.moreRows THEN [rows |-> r, o |-> c, retval |-> <<>>, err |-> "EOS"]
    ELSE LET first == IF c.lastRow.TargetId # EmptyId THEN <<c.lastRow>> ELSE <<>>
             l == NextLoop(r, c, first) IN
         IF l.scanErr
         THEN [rows |-> l.rows, o |-> l.o, retval |-> <<>>, err |-> "err"]
         ELSE IF NoRowsAtAll(l.rows.err, l.o.anyRows)
         THEN [rows |-> l.rows, o |-> l.o, retval |-> <<>>, err |-> "EOS"]
         ELSE [rows |-> l.rows, o |-> l.o, retval |-> l.retval,
               err |-> IF l.rows.err THEN "err" ELSE "nil"]

\* ------------------------------------------------------------------------
\* database.go: the avus table and the recursive query _selectAVU
\* ------------------------------------------------------------------------

AvuIds == 1..MaxAvus
ObjIds == (MaxAvus + 1)..(MaxAvus + MaxObjs)
Ids == AvuIds \cup ObjIds

\* the table with AVU a missing
NoRow(a) == Row(a, EmptyId, "none")

\* What the row of AVU a can be: missing, attached to an object as a file or
\* a folder AVU, or attached to an AVU with a smaller id (so that the AVUs
\* on AVUs form a forest).
RowChoices(a) ==
    {NoRow(a)}
    \cup {Row(a, x, t) : x \in ObjIds, t \in {"file", "folder"}}
    \cup {Row(a, b, "avu") : b \in {b \in AvuIds : b < a}}

\* the avus table, one entry per AVU id
WellFormed(d) ==
    \A a \in AvuIds :
        /\ d[a].TargetType = "avu" => d[d[a].TargetId].TargetType # "none"
        /\ \A b \in AvuIds :
              (d[a].TargetId = d[b].TargetId /\ d[a].TargetId \in ObjIds)
                  => d[a].TargetType = d[b].TargetType

Tables ==
    {d \in [AvuIds -> UNION {RowChoices(a) : a \in AvuIds}] :
        (\A a \in AvuIds : d[a] \in RowChoices(a)) /\ WellFormed(d)}

\* Tables deep enough for an AVU on an AVU on an AVU: the AVUs NestIds, the
\* objects NestObjIds, otherwise as Tables
NestIds == 1..MaxNest
NestObjIds == (MaxNest + 1)..(MaxNest + MaxObjs)

NestChoices(a) ==
    {NoRow(a)}
    \cup {Row(a, x, t) : x \in NestObjIds, t \in {"file", "folder"}}
    \cup {Row(a, b, "avu") : b \in {b \in NestIds : b < a}}

NestTables ==
    {d \in [NestIds -> UNION {NestChoices(a) : a \in NestIds}] :
        \A a \in NestIds :
            /\ d[a] \in NestChoices(a)
            /\ d[a].TargetType = "avu" => d[d[a].TargetId].TargetType # "none"
            /\ \A b \in NestIds :
                  (d[a].TargetId = d[b].TargetId /\ d[a].TargetId \in NestObjIds)
                      => d[a].TargetType = d[b].TargetType}

\* the rows of the table
TableRows(d) == {d[a] : a \in {a \in DOMAIN d : d[a].TargetType # "none"}}

\* the recursive term of all_avus: an AVU attached to a collected AVU is
\* collected under that AVU's target
JoinStep(d, S) ==
    S \cup {Row(r.ID, aa.TargetId, aa.TargetType) :
               <<r, aa>> \in {<<r, aa>> \in TableRows(d) \X S :
                                r.TargetType = "avu" /\ r.TargetId = aa.ID}}

\* a variant that follows the attachments one level deep only
JoinOnce(d, S) == JoinStep(d, S)

RECURSIVE JoinAll(_, _)
JoinAll(d, S) == LET T == JoinStep(d, S) IN IF T = S THEN S ELSE JoinAll(d, T)

\* a variant that orders the rows by their own id
SortKeyById(r) == r.ID

\* position of a row under ORDER BY target_id (rows of one target by id)
SortKey(r) == r.TargetId * (MaxAvus + MaxObjs + 1) + r.ID

RECURSIVE SortRows(_)
SortRows(S) ==
    IF S = {} THEN <<>>
    ELSE LET r == CHOOSE r \in S : \A q \in S : SortKey(r) <= SortKey(q)
         IN <<r>> \o SortRows(S \ {r})

\* _selectAVU with the WHERE clause as the set of base rows
SelectAVU(d, base) == SortRows(JoinAll(d, base))

\* Databaser.GetObjectAVUs: the query fails when the connection does (~ok)
\* and when uuid is not a uuid (cast($1 as uuid) of the empty string)
GetObjectAVUs(d, uuid, ok) ==
    IF ~ok \/ uuid = EmptyId THEN [avus |-> <<>>, err |-> TRUE]
    ELSE [avus |-> SelectAVU(d, {r \in TableRows(d) : r.TargetId = uuid}),
          err |-> FALSE]

\* Databaser.GetAllObjects: the rows of the unfiltered query
AllObjectRows(d) == SelectAVU(d, TableRows(d))

\* Databaser.GetAVU: the query filtered by `id = $1`, its first row, and
\* the error when there is none or a second one. err is "nil", "ErrNoRows",
\* "more" (more than one row) or a failure of the connection: "query",
\* "rows" (rows.Err()), "scan".
GetAVU(d, uuid, ok, kind, at) ==
    IF ~ok \/ uuid = EmptyId THEN [ar |-> <<>>, err |-> "query"]
    ELSE LET r0 == NewRows(SelectAVU(d, {r \in TableRows(d) : r.ID = uuid}),
                           kind, at)
             n1 == RowsNext(r0) IN
         IF ~n1.ok
         THEN [ar |-> <<>>, err |-> IF n1.rows.err THEN "rows" ELSE "ErrNoRows"]
         ELSE LET s1 == avuRecordFromRow(n1.rows) IN
              IF s1.err THEN [ar |-> <<>>, err |-> "scan"]
              ELSE IF RowsNext(n1.rows).ok
              THEN [ar |-> <<s1.ar>>, err |-> "more"]
              ELSE [ar |-> <<s1.ar>>, err |-> "nil"]

\* ------------------------------------------------------------------------
\* model: the indexed document of one object
\* ------------------------------------------------------------------------

\* model.AVUsToIndexedObject: the document of a bundle, ErrNoAVUs for an
\* empty bundle, an error for rows of different targets
AVUsToIndexedObject(avus) ==
    IF avus = <<>> THEN [err |-> "ErrNoAVUs", ID |-> EmptyId, avus |-> {}]
    ELSE IF \E i \in 1..Len(avus) :
                \/ avus[i].TargetId # avus[1].TargetId
                \/ avus[i].TargetType # avus[1].TargetType
    THEN [err |-> "mismatch", ID |-> EmptyId, avus |-> {}]
    ELSE [err |-> "nil", ID |-> avus[1].TargetId,
          avus |-> {avus[i].ID : i \in 1..Len(avus)}]

\* ------------------------------------------------------------------------
\* elasticsearch.go: the search index and the requests sent to it
\* ------------------------------------------------------------------------

knownTypesFileOnly == {"file"}
knownTypes == {"file", "folder"}

IndexTypes == {"file_metadata", "folder_metadata"}

\* a variant that addresses every document to the type of files
IndexedTypeFile(t) == "file_metadata"

\* fmt.Sprintf("%s_metadata", t)
IndexedType(t) == IF t = "file" THEN "file_metadata" ELSE "folder_metadata"

\* a document of the index: its type, its id and the AVUs it was built from
Doc(type, id, avus) == [type |-> type, ID |-> id, avus |-> avus]

\* a document some earlier run left under the id of an object: built from
\* AVUs the table no longer holds
StaleDocs == {Doc(t, x, {}) : t \in IndexTypes, x \in ObjIds}

DeleteRequest(t, id) == [op |-> "delete", type |-> t, ID |-> id, avus |-> {}]
IndexRequest(t, formatted) ==
    [op |-> "index", type |-> t, ID |-> formatted.ID, avus |-> formatted.avus]

\* (variant) a request meets every document of its type, whatever the id
ApplyAnyId(idx, r) ==
    LET rest == {x \in idx : x.type # r.type} IN
    IF r.op = "delete" THEN rest ELSE rest \cup {Doc(r.type, r.ID, r.avus)}

\* the index after one request
Apply(idx, r) ==
    LET rest == {x \in idx : ~(x.type = r.type /\ x.ID = r.ID)} IN
    IF r.op = "delete" THEN rest ELSE rest \cup {Doc(r.type, r.ID, r.avus)}

RECURSIVE ApplyBulk(_, _)
\* the index after a bulk request
ApplyBulk(idx, batch) ==
    IF batch = <<>> THEN idx ELSE ApplyBulk(Apply(idx, Head(batch)), Tail(batch))

\* the index after a call on a BulkIndexer that returned res
AfterCall(idx, res) == IF res.ok THEN ApplyBulk(idx, res.sent) ELSE idx

\* the ids of the documents of one type, as a scroll walks them
ScrollIds(idx, t) ==
    SortRows({Row(x.ID, EmptyId, t) : x \in {x \in idx : x.type = t}})

\* ------------------------------------------------------------------------
\* bulkindexer.go: the BulkIndexer over elastic's BulkService
\* ------------------------------------------------------------------------

NewBulkIndexer(bulkSize) == [bulkSize |-> bulkSize, queue |-> <<>>]

\* BulkIndexer.Flush. bulkService.Do refuses an empty request with an error
\* and sends nothing; otherwise it sends the queued actions as one request,
\* and ok tells whether that request succeeds. Only after a nil error is
\* bulkService replaced by a new, empty one.
\* sent is the batch handed to the search index (<<>>: none).
Flush(b, ok) ==
    IF b.queue = <<>>
    THEN [b |-> b, err |-> TRUE, sent |-> <<>>, ok |-> FALSE]
    ELSE IF ~ok
    THEN [b |-> b, err |-> TRUE, sent |-> b.queue, ok |-> FALSE]
    ELSE [b |-> [b EXCEPT !.queue = <<>>], err |-> FALSE, sent |-> b.queue,
          ok |-> TRUE]

\* BulkIndexer.Add
Add(b, r, ok) ==
    LET b1 == [b EXCEPT !.queue = Append(@, r)] IN
    IF Len(b1.queue) >= b1.bulkSize
    THEN Flush(b1, ok)
    ELSE [b |-> b1, err |-> FALSE, sent |-> <<>>, ok |-> FALSE]

\* the history of batches after one call that returned res
Record(log, res, tag) ==
    IF res.sent = <<>> THEN log
    ELSE Append(log, [batch |-> res.sent, ok |-> res.ok, by |-> tag])

NoOp == [op |-> "none", err |-> FALSE, before |-> <<>>]

\* ------------------------------------------------------------------------
\* main.go: the handlers of incremental mode, their locals
\* ------------------------------------------------------------------------

\* the handlers AddConsumer runs at once (their names)
Handlers == 1..MaxHandlers

\* a handler that is not running
NoHandler ==
    [pc |-> "idle", del |-> [Body |-> [valid |-> TRUE, id |-> EmptyId],
                              Redelivered |-> FALSE],
     m |-> [ID |-> EmptyId], avus |-> <<>>, k |-> 1]

NoHist ==
    [n |-> 0, idx0 |-> {}, read |-> "none", fault |-> FALSE, msg |-> 0, tag |-> 0]

\* ------------------------------------------------------------------------
\* Values of the variables a specification does not use
\* ------------------------------------------------------------------------

CursorIdle ==
    /\ rows = NewRows(<<>>, "none", 1)
    /\ o = newObjectCursor
    /\ groups = <<>>
    /\ lastErr = "none"
    /\ errSeen = FALSE
    /\ pulls = 0

BulkIdle ==
    /\ indexer = NewBulkIndexer(1)
    /\ submitted = <<>>
    /\ lastOp = NoOp
    /\ adds = 0

NoScroll == [open |-> FALSE, rest |-> <<>>]

ReindexIdle ==
    /\ pc = "idle"
    /\ phase = 0
    /\ ptypes = <<>>
    /\ scroll = NoScroll
    /\ hits = <<>>
    /\ index0 = {}
    /\ ends = <<>>
    /\ done = {}
    /\ steps = <<>>

\* main before it has started, as the phases and handlers see it
NoProc ==
    [pc |-> "none", showVersion |-> FALSE, mode |-> "", cfgPath |-> "",
     status |-> 0, opened |-> {}, closed |-> {}, consumers |-> {},
     reindexes |-> 0, pings |-> 0, pongs |-> <<>>]

\* GetAVU has not been called
NoCall == [uuid |-> EmptyId, called |-> FALSE, ar |-> <<>>, err |-> "nil"]

MainIdle ==
    /\ proc = NoProc
    /\ found = NoCall

\* no queue is consumed
EnvIdle ==
    /\ broker = <<>>
    /\ running = {}
    /\ MainIdle

\* incremental mode with no delivery received yet
IncIdle ==
    /\ handler = [h \in Handlers |-> NoHandler]
    /\ settled = [h \in Handlers |-> <<>>]
    /\ sent = [h \in Handlers |-> <<>>]
    /\ hist = [h \in Handlers |-> NoHist]
    /\ delivered = 0
    /\ changes = 0

SysIdle ==
    /\ db = [a \in AvuIds |-> NoRow(a)]
    /\ index = {}
    /\ faults = 0
    /\ ReindexIdle
    /\ IncIdle
    /\ EnvIdle

\* ------------------------------------------------------------------------
\* elasticsearch.go: Reindex = PurgeIndex, then IndexEverything
\* ------------------------------------------------------------------------

\* the body of Reindex: the phases in the order it calls them
ReindexPhasesSwapped == <<"rebuild", "purge">>
ReindexPhases == <<"purge", "rebuild">>

\* a variant that deletes every hit whose lookup succeeded
ShouldDeleteAlways(avus) == TRUE

\* PurgeType: the test that decides the delete of a hit
ShouldDelete(avus) == Len(avus) = 0

\* PurgeType: the hits of one page of the scroll that the loop visits
PageHitsFirstOnly(rest) == IF rest = <<>> THEN <<>> ELSE <<Head(rest)>>
PageHits(rest) == SubSeq(rest, 1, IF Len(rest) < PageSize THEN Len(rest) ELSE PageSize)

\* the scroll after one page
AfterPage(rest) == SubSeq(rest, (IF Len(rest) < PageSize THEN Len(rest) ELSE PageSize) + 1, Len(rest))

\* the buffer IndexEverything creates, given the one PurgeIndex left
RebuildIndexerShared(old) == old
RebuildIndexer(old) == NewBulkIndexer(BulkSize)

\* the tag of the batches the current phase submits
Tag(name) == [phase |-> name, run |-> Len(ends) + 1]

\* 1 when an I/O call failed, else 0
Cost(failed) == IF failed THEN 1 ELSE 0

\* a phase returns: Reindex calls the next one, or returns itself
EndPhase(name, idx) ==
    /\ done' = done \cup {name}
    /\ IF phase < Len(ReindexPhases)
       THEN /\ pc' = "phase"
            /\ phase' = phase + 1
            /\ ends' = ends
       ELSE /\ pc' = "done"
            /\ phase' = phase
            /\ ends' = Append(ends, idx)

\* the entry of one loop turn (or one call) into the history of the run
Step(kind, name, id, type, got, enq, err) ==
    [kind |-> kind, phase |-> name, ID |-> id, type |-> type, got |-> got,
     enq |-> enq, err |-> err]

\* Reindex is called
CallReindex ==
    /\ pc \in {"idle", "done"}
    /\ Len(ends) < MaxRuns
    /\ pc' = "phase"
    /\ phase' = 1
    /\ index0' = index
    /\ done' = {}
    /\ steps' = <<>>
    /\ UNCHANGED <<incVars, cursorVars, bulkVars, db, index, faults, ptypes, scroll,
                   hits, ends>>

\* Reindex is called by doFullMode, or by a caller that is not modelled
StartReindex ==
    /\ CallReindex
    /\ UNCHANGED envVars

\* PurgeIndex up to its first call of PurgeType
BeginPurge ==
    /\ pc = "phase"
    /\ ReindexPhases[phase] = "purge"
    /\ indexer' = NewBulkIndexer(BulkSize)
    /\ ptypes' = <<"file_metadata", "folder_metadata">>
    /\ scroll' = NoScroll
    /\ pc' = "purge_scroll"
    /\ UNCHANGED <<envVars, incVars, cursorVars, submitted, bulkHist, db, index, faults,
                   phase, hits, index0, ends, done, steps>>

\* PurgeType: one scanner.Do. A failure makes PurgeType return the error and
\* PurgeIndex call log.Fatal, which exits the process at once (the deferred
\* Flush does not run); io.EOF ends the purge of this type.
PurgeScroll ==
    /\ pc = "purge_scroll"
    /\ \E ok \in BOOLEAN :
         /\ faults + Cost(~ok) <= MaxFaults
         /\ faults' = faults + Cost(~ok)
         /\ LET rest == IF scroll.open THEN scroll.rest
                        ELSE ScrollIds(index, Head(ptypes)) IN
            steps' = Append(steps,
                       Step("scroll", "purge", EmptyId, Head(ptypes),
                            IF ~ok THEN "err" ELSE IF rest = <<>> THEN "EOF" ELSE "page",
                            FALSE, ~ok))
         /\ LET rest == IF scroll.open THEN scroll.rest
                        ELSE ScrollIds(index, Head(ptypes)) IN
            IF ~ok
            THEN /\ pc' = "exited"
                 /\ UNCHANGED <<ptypes, scroll, hits>>
            ELSE IF rest = <<>>
            THEN /\ ptypes' = Tail(ptypes)
                 /\ scroll' = NoScroll
                 /\ hits' = <<>>
                 /\ pc' = IF Tail(ptypes) = <<>> THEN "purge_flush" ELSE "purge_scroll"
            ELSE /\ hits' = PageHits(rest)
                 /\ scroll' = [open |-> TRUE, rest |-> AfterPage(rest)]
                 /\ ptypes' = ptypes
                 /\ pc' = "purge_hits"
    /\ UNCHANGED <<envVars, incVars, cursorVars, bulkVars, db, index, phase, index0, ends,
                   done>>

\* PurgeType: the body of the loop over the hits of a page, for one hit
PurgeHit ==
    /\ pc = "purge_hits"
    /\ \E dbok \in BOOLEAN, esok \in BOOLEAN :
         LET hit == Head(hits)
             got == GetObjectAVUs(db, hit.ID, dbok)
             del == ~got.err /\ ShouldDelete(got.avus)
             res == Add(indexer, DeleteRequest(Head(ptypes), hit.ID), esok)
             cost == Cost(~dbok) + Cost(del /\ res.sent # <<>> /\ ~res.ok) IN
         /\ del \/ esok
         /\ (del /\ res.sent = <<>>) => esok
         /\ faults + cost <= MaxFaults
         /\ faults' = faults + cost
         /\ indexer' = IF del THEN res.b ELSE indexer
         /\ submitted' = IF del THEN Record(submitted, res, Tag("purge")) ELSE submitted
         /\ index' = IF del THEN AfterCall(index, res) ELSE index
         /\ steps' = Append(steps,
                       Step("hit", "purge", hit.ID, Head(ptypes),
                            IF got.err THEN "err"
                            ELSE IF got.avus = <<>> THEN "empty" ELSE "some",
                            del, del /\ res.err))
    /\ hits' = Tail(hits)
    /\ pc' = IF Tail(hits) = <<>> THEN "purge_scroll" ELSE "purge_hits"
    /\ UNCHANGED <<envVars, incVars, cursorVars, bulkHist, db, phase, ptypes, scroll, index0,
                   ends, done>>

\* PurgeIndex returns: the deferred indexer.Flush(), its error dropped
PurgeFlush ==
    /\ pc = "purge_flush"
    /\ \E ok \in BOOLEAN :
         LET res == Flush(indexer, ok)
             cost == Cost(res.sent # <<>> /\ ~res.ok) IN
         /\ res.sent = <<>> => ok
         /\ faults + cost <= MaxFaults
         /\ faults' = faults + cost
         /\ indexer' = res.b
         /\ submitted' = Record(submitted, res, Tag("purge"))
         /\ index' = AfterCall(index, res)
         /\ EndPhase("purge", AfterCall(index, res))
         /\ steps' = Append(steps,
                       Step("flush", "purge", EmptyId, "",
                            IF res.sent = <<>> THEN "empty" ELSE "sent", FALSE, res.err))
    /\ UNCHANGED <<envVars, incVars, cursorVars, bulkHist, db, ptypes, scroll, hits, index0>>

\* IndexEverything up to its loop: a new buffer, then GetAllObjects, whose
\* failure ends in log.Fatal. The result set may meet one row fault.
BeginRebuildOver(all) ==
    /\ pc = "phase"
    /\ ReindexPhases[phase] = "rebuild"
    /\ indexer' = RebuildIndexer(indexer)
    /\ \E ok \in BOOLEAN, kind \in {"none", "scan", "iter"} :
       \E at \in 1..(Len(all) + 1) :
         /\ (~ok \/ kind = "none") => at = 1
         /\ ~ok => kind = "none"
         /\ kind = "scan" => at <= Len(all)
         /\ faults + Cost(~ok \/ kind # "none") <= MaxFaults
         /\ faults' = faults + Cost(~ok \/ kind # "none")
         /\ steps' = Append(steps,
                       Step("query", "rebuild", EmptyId, "",
                            IF ok THEN "ok" ELSE "err", FALSE, ~ok))
         /\ IF ok
            THEN /\ rows' = NewRows(all, kind, at)
                 /\ o' = newObjectCursor
                 /\ pc' = "rebuild_loop"
            ELSE /\ pc' = "exited"
                 /\ UNCHANGED <<rows, o>>
    /\ UNCHANGED <<envVars, incVars, cursorHist, submitted, bulkHist, db, index, phase,
                   ptypes, scroll, hits, index0, ends, done>>

\* IndexEverything over the rows of the avus table
BeginRebuild == BeginRebuildOver(AllObjectRows(db))

\* IndexEverything: one turn of its loop
RebuildNext ==
    /\ pc = "rebuild_loop"
    /\ \E esok \in BOOLEAN, n \in {CursorNext(rows, o)} :
         LET formatted == AVUsToIndexedObject(n.retval)
             built == n.err = "nil" /\ formatted.err = "nil"
             known == built /\ n.retval[1].TargetType \in knownTypes
             res == Add(indexer,
                        IndexRequest(IndexedType(n.retval[1].TargetType), formatted),
                        esok)
             cost == Cost(known /\ res.sent # <<>> /\ ~res.ok) IN
         /\ known \/ esok
         /\ (known /\ res.sent = <<>>) => esok
         /\ faults + cost <= MaxFaults
         /\ faults' = faults + cost
         /\ rows' = n.rows
         /\ o' = n.o
         /\ indexer' = IF known THEN res.b ELSE indexer
         /\ submitted' = IF known THEN Record(submitted, res, Tag("rebuild"))
                         ELSE submitted
         /\ index' = IF known THEN AfterCall(index, res) ELSE index
         /\ steps' = Append(steps,
                       Step("bundle", "rebuild",
                            IF n.retval = <<>> THEN EmptyId ELSE n.retval[1].TargetId,
                            IF n.retval = <<>> THEN "" ELSE n.retval[1].TargetType,
                            IF n.err # "nil" THEN n.err ELSE formatted.err,
                            known, known /\ res.err))
         /\ pc' = IF ~built \/ (known /\ res.err) THEN "rebuild_flush"
                  ELSE "rebuild_loop"
    /\ UNCHANGED <<envVars, incVars, cursorHist, bulkHist, db, phase, ptypes, scroll, hits,
                   index0, ends, done>>

\* IndexEverything returns: the deferred cursor.Close() and indexer.Flush()
RebuildFlush ==
    /\ pc = "rebuild_flush"
    /\ \E ok \in BOOLEAN :
         LET res == Flush(indexer, ok)
             cost == Cost(res.sent # <<>> /\ ~res.ok) IN
         /\ res.sent = <<>> => ok
         /\ faults + cost <= MaxFaults
         /\ faults' = faults + cost
         /\ indexer' = res.b
         /\ submitted' = Record(submitted, res, Tag("rebuild"))
         /\ index' = AfterCall(index, res)
         /\ EndPhase("rebuild", AfterCall(index, res))
         /\ steps' = Append(steps,
                       Step("flush", "rebuild", EmptyId, "",
                            IF res.sent = <<>> THEN "empty" ELSE "sent", FALSE, res.err))
    /\ UNCHANGED <<envVars, incVars, cursorVars, bulkHist, db, ptypes, scroll, hits, index0>>

Reindex ==
    \/ StartReindex
    \/ BeginPurge
    \/ PurgeScroll
    \/ PurgeHit
    \/ PurgeFlush
    \/ BeginRebuild
    \/ RebuildNext
    \/ RebuildFlush

\* Reindex run up to MaxRuns times in a row against a database that does
\* not change, from any table and any few documents left in the index
InitReindex ==
    /\ db \in Tables
    /\ index \in {s \in SUBSET StaleDocs : Cardinality(s) <= MaxDocs0}
    /\ faults = 0
    /\ ReindexIdle
    /\ IncIdle
    /\ EnvIdle
    /\ CursorIdle
    /\ BulkIdle

NextReindex == Reindex

SpecReindex == InitReindex /\ [][NextReindex]_vars

\* ------------------------------------------------------------------------
\* elasticsearch.go: what a Reindex that meets no failure computes
\* ------------------------------------------------------------------------

\* PurgeType without failure: the delete requests for the documents of type t
PurgeRequests(idx, d, t) ==
    LET gone == SelectSeq(ScrollIds(idx, t),
                          LAMBDA hit : LET got == GetObjectAVUs(d, hit.ID, TRUE)
                                       IN ~got.err /\ ShouldDelete(got.avus))
    IN [i \in 1..Len(gone) |-> DeleteRequest(t, gone[i].ID)]

\* PurgeIndex without failure
PurgeOf(idx, d) ==
    LET idx1 == ApplyBulk(idx, PurgeRequests(idx, d, "file_metadata"))
    IN ApplyBulk(idx1, PurgeRequests(idx1, d, "folder_metadata"))

RECURSIVE RebuildFrom(_, _, _)
\* the loop of IndexEverything without failure
RebuildFrom(idx, r, c) ==
    LET n == CursorNext(r, c)
        formatted == AVUsToIndexedObject(n.retval)
        built == n.err = "nil" /\ formatted.err = "nil"
        known == built /\ n.retval[1].TargetType \in knownTypes
    IN IF ~built THEN idx
       ELSE RebuildFrom(IF known
                        THEN Apply(idx, IndexRequest(IndexedType(n.retval[1].TargetType),
                                                     formatted))
                        ELSE idx,
                        n.rows, n.o)

\* IndexEverything without failure
RebuildOf(idx, d) ==
    RebuildFrom(idx, NewRows(AllObjectRows(d), "none", 1), newObjectCursor)

\* Reindex without failure: the index it leaves, from index idx and table d
ReindexOf(idx, d) == RebuildOf(PurgeOf(idx, d), d)

\* ------------------------------------------------------------------------
\* main.go: doIncrementalMode; elasticsearch.go: IndexOne and DeleteOne
\* ------------------------------------------------------------------------

\* the bodies a delivery can carry: valid tells whether json.Unmarshal
\* accepts the body, id is what it leaves in m.ID (EmptyId: nothing)
Bodies == [valid : BOOLEAN, id : Ids \cup {EmptyId}]

\* json.Unmarshal(del.Body, &m)
Unmarshal(body) == [m |-> [ID |-> body.id], err |-> ~body.valid]

\* the argument of del.Reject
RequeueFlagAlways(del) == TRUE
RequeueFlagSame(del) == del.Redelivered
RequeueFlag(del) == ~del.Redelivered

\* the calls that settle a delivery
RejectCall(requeue) == [op |-> "Reject", arg |-> requeue]
AckCall == [op |-> "Ack", arg |-> FALSE]

\* the handler before its call of IndexOne: the Reject that follows a failed
\* json.Unmarshal
RejectsOf(del) ==
    IF Unmarshal(del.Body).err THEN <<RejectCall(RequeueFlag(del))>> ELSE <<>>

\* the messages of the queue
Msgs == 1..MaxMsgs

\* a message as the broker holds it after its publication
NewMessage(body) ==
    [body |-> body, state |-> "ready", redelivered |-> FALSE, deliveries |-> 0]

\* the broker hands message m to a consumer
Delivered(b, m) == [b EXCEPT ![m].state = "unacked", ![m].deliveries = @ + 1]

\* the broker receives a call that settles delivery number tag of message m:
\* Ack removes the message, Reject drops it or puts it back marked as
\* redelivered. A call for a delivery that is settled already finds no
\* message to act on.
Settle(b, m, tag, call) ==
    IF m \notin DOMAIN b THEN b
    ELSE IF b[m].state # "unacked" \/ b[m].deliveries # tag THEN b
    ELSE IF call.op = "Ack" THEN [b EXCEPT ![m].state = "acked"]
    ELSE IF call.arg THEN [b EXCEPT ![m].state = "ready", ![m].redelivered = TRUE]
    ELSE [b EXCEPT ![m].state = "dropped"]

RECURSIVE SettleAll(_, _, _, _)
SettleAll(b, m, tag, calls) ==
    IF calls = <<>> THEN b
    ELSE SettleAll(Settle(b, m, tag, Head(calls)), m, tag, Tail(calls))

\* the types DeleteOne sends a delete for, in its order
DeleteOneTypesFileOnly == <<"file_metadata">>
DeleteOneTypesFolderFirst == <<"folder_metadata", "file_metadata">>
DeleteOneTypes == <<"file_metadata", "folder_metadata">>

\* IndexOne after the lookup: what it does next with the AVUs it got
IndexOneBranchNoDelete(got) ==
    IF got.err \/ got.avus = <<>> THEN "Ack"
    ELSE IF AVUsToIndexedObject(got.avus).err # "nil" THEN "Ack"
    ELSE IF got.avus[1].TargetType \in knownTypes THEN "Index"
    ELSE "Ack"
IndexOneBranchDeleteOnError(got) ==
    IF got.err \/ AVUsToIndexedObject(got.avus).err = "ErrNoAVUs" THEN "DeleteOne"
    ELSE IF AVUsToIndexedObject(got.avus).err # "nil" THEN "Ack"
    ELSE IF got.avus[1].TargetType \in knownTypes THEN "Index"
    ELSE "Ack"
IndexOneBranchNoAckOnError(got) ==
    IF got.err THEN "returned"
    ELSE IF AVUsToIndexedObject(got.avus).err = "ErrNoAVUs" THEN "DeleteOne"
    ELSE IF AVUsToIndexedObject(got.avus).err # "nil" THEN "Ack"
    ELSE IF got.avus[1].TargetType \in knownTypes THEN "Index"
    ELSE "Ack"
IndexOneBranch(got) ==
    IF got.err THEN "Ack"
    ELSE IF AVUsToIndexedObject(got.avus).err = "ErrNoAVUs" THEN "DeleteOne"
    ELSE IF AVUsToIndexedObject(got.avus).err # "nil" THEN "Ack"
    ELSE IF got.avus[1].TargetType \in knownTypes THEN "Index"
    ELSE "Ack"

\* the handler is called with a delivery: json.Unmarshal, and del.Reject when
\* it fails; the handler goes on to IndexOne in both cases
OnDelivery(h, del) ==
    /\ handler' = [handler EXCEPT ![h] =
                      [pc |-> "IndexOne", del |-> del, m |-> Unmarshal(del.Body).m,
                       avus |-> <<>>, k |-> 1]]
    /\ settled' = [settled EXCEPT ![h] = RejectsOf(del)]
    /\ sent' = [sent EXCEPT ![h] = <<>>]

\* a delivery of any body, redelivered or not, from a queue that is not
\* modelled
IncReceive(h) ==
    /\ handler[h].pc = "idle"
    /\ delivered < MaxDeliveries
    /\ \E body \in Bodies, red \in BOOLEAN :
         OnDelivery(h, [Body |-> body, Redelivered |-> red])
    /\ delivered' = delivered + 1
    /\ hist' = [hist EXCEPT ![h] = [NoHist EXCEPT !.n = delivered + 1]]
    /\ UNCHANGED <<envVars, cursorVars, bulkVars, sysVars, changes>>

\* the broker hands a message of the queue to the handler
IncDeliver(h) ==
    /\ handler[h].pc = "idle"
    /\ \E m \in DOMAIN broker :
         /\ broker[m].state = "ready"
         /\ broker[m].deliveries < MaxTries
         /\ LET del == [Body |-> broker[m].body,
                        Redelivered |-> broker[m].redelivered]
                b1 == Delivered(broker, m) IN
            /\ OnDelivery(h, del)
            /\ broker' = SettleAll(b1, m, b1[m].deliveries, RejectsOf(del))
            /\ hist' = [hist EXCEPT ![h] =
                           [NoHist EXCEPT !.msg = m, !.tag = b1[m].deliveries]]
    /\ UNCHANGED <<running, mainVars, cursorVars, bulkVars, sysVars, delivered, changes>>

\* IndexOne: GetObjectAVUs and AVUsToIndexedObject
IndexOne(h) ==
    /\ handler[h].pc = "IndexOne"
    /\ \E ok \in BOOLEAN :
         LET got == GetObjectAVUs(db, handler[h].m.ID, ok) IN
         /\ handler[h].m.ID = EmptyId => ok
         /\ faults + Cost(~ok) <= MaxFaults
         /\ faults' = faults + Cost(~ok)
         /\ handler' = [handler EXCEPT ![h].pc = IndexOneBranch(got),
                                       ![h].avus = got.avus]
         /\ hist' = [hist EXCEPT ![h].idx0 = index,
                                 ![h].read = IF got.err THEN "err" ELSE "ok",
                                 ![h].fault = ~ok]
    /\ UNCHANGED <<envVars, cursorVars, bulkVars, reindexVars, db, index, settled, sent,
                   delivered, changes>>

\* DeleteOne: one of its delete requests; an error is at most logged
DeleteOne(h) ==
    /\ handler[h].pc = "DeleteOne"
    /\ \E ok \in BOOLEAN :
         LET r == DeleteRequest(DeleteOneTypes[handler[h].k], handler[h].m.ID) IN
         /\ faults + Cost(~ok) <= MaxFaults
         /\ faults' = faults + Cost(~ok)
         /\ index' = IF ok THEN Apply(index, r) ELSE index
         /\ sent' = [sent EXCEPT ![h] = Append(@, [req |-> r, ok |-> ok])]
         /\ hist' = [hist EXCEPT ![h].fault = @ \/ ~ok]
    /\ handler' = [handler EXCEPT
                      ![h].k = @ + 1,
                      ![h].pc = IF handler[h].k < Len(DeleteOneTypes)
                                THEN "DeleteOne" ELSE "Ack"]
    /\ UNCHANGED <<envVars, cursorVars, bulkVars, reindexVars, db, settled, delivered, changes>>

\* IndexOne: the index request for an object of a known type
IndexOneWrite(h) ==
    /\ handler[h].pc = "Index"
    /\ \E ok \in BOOLEAN :
         LET avus == handler[h].avus
             r == IndexRequest(IndexedType(avus[1].TargetType),
                               AVUsToIndexedObject(avus)) IN
         /\ faults + Cost(~ok) <= MaxFaults
         /\ faults' = faults + Cost(~ok)
         /\ index' = IF ok THEN Apply(index, r) ELSE index
         /\ sent' = [sent EXCEPT ![h] = Append(@, [req |-> r, ok |-> ok])]
         /\ hist' = [hist EXCEPT ![h].fault = @ \/ ~ok]
    /\ handler' = [handler EXCEPT ![h].pc = "Ack"]
    /\ UNCHANGED <<envVars, cursorVars, bulkVars, reindexVars, db, settled, delivered, changes>>

\* del.Ack(false) after IndexOne returned
IncAck(h) ==
    /\ handler[h].pc = "Ack"
    /\ settled' = [settled EXCEPT ![h] = Append(@, AckCall)]
    /\ handler' = [handler EXCEPT ![h].pc = "returned"]
    /\ broker' = Settle(broker, hist[h].msg, hist[h].tag, AckCall)
    /\ UNCHANGED <<running, mainVars, cursorVars, bulkVars, sysVars, sent, hist, delivered,
                   changes>>

\* the handler has returned
IncReturn(h) ==
    /\ handler[h].pc = "returned"
    /\ handler' = [handler EXCEPT ![h] = NoHandler]
    /\ settled' = [settled EXCEPT ![h] = <<>>]
    /\ sent' = [sent EXCEPT ![h] = <<>>]
    /\ hist' = [hist EXCEPT ![h] = NoHist]
    /\ UNCHANGED <<envVars, cursorVars, bulkVars, sysVars, delivered, changes>>

\* the avus table changes while no handler runs
DbChange ==
    /\ \A h \in Handlers : handler[h].pc = "idle"
    /\ changes < MaxChanges
    /\ \E d \in Tables \ {db} : db' = d
    /\ changes' = changes + 1
    /\ UNCHANGED <<envVars, cursorVars, bulkVars, reindexVars, index, faults, handler,
                   settled, sent, hist, delivered>>

\* incremental mode: up to MaxHandlers handlers at once, from any table and
\* any few documents left in the index
InitInc ==
    /\ db \in Tables
    /\ index \in {s \in SUBSET StaleDocs : Cardinality(s) <= MaxDocs0}
    /\ faults = 0
    /\ ReindexIdle
    /\ IncIdle
    /\ EnvIdle
    /\ CursorIdle
    /\ BulkIdle

NextInc ==
    \/ \E h \in Handlers :
         \/ IncReceive(h)
         \/ IndexOne(h)
         \/ DeleteOne(h)
         \/ IndexOneWrite(h)
         \/ IncAck(h)
         \/ IncReturn(h)
    \/ DbChange

SpecInc == InitInc /\ [][NextInc]_vars

\* incremental mode fed from its queue: MaxMsgs messages of any body were
\* published; every call the handler makes returns
InitIncQueue ==
    /\ db \in Tables
    /\ index = {}
    /\ faults = 0
    /\ broker \in [Msgs -> {NewMessage(body) : body \in Bodies}]
    /\ running = {}
    /\ MainIdle
    /\ ReindexIdle
    /\ IncIdle
    /\ CursorIdle
    /\ BulkIdle

NextIncQueue ==
    \E h \in Handlers :
        \/ IncDeliver(h)
        \/ IndexOne(h)
        \/ DeleteOne(h)
        \/ IndexOneWrite(h)
        \/ IncAck(h)
        \/ IncReturn(h)

SpecIncQueue == InitIncQueue /\ [][NextIncQueue]_vars /\ WF_vars(NextIncQueue)

\* ------------------------------------------------------------------------
\* IndexEverything on its own, over any result set of GetAllObjects
\* ------------------------------------------------------------------------

\* the target types a row can carry: the known ones and another one
RowTypes == {"file", "folder", "user"}

\* the sorted row streams with any type on each row (rows of one target with
\* different types are a data-integrity fault of the table)
TypedStreams ==
    {[i \in 1..Len(st) |-> Row(i, st[i].TargetId, ty[i])] :
        st \in SortedStreams, ty \in [1..MaxRows -> RowTypes]}

\* IndexEverything over a table that returns the rows of any such stream
BeginRebuildAny ==
    /\ pc = "phase"
    /\ \E data \in TypedStreams : BeginRebuildOver(data)

\* Reindex at its call of IndexEverything, after PurgeIndex found an empty
\* index
InitRebuild ==
    /\ db = [a \in AvuIds |-> NoRow(a)]
    /\ index = {}
    /\ faults = 0
    /\ pc = "phase"
    /\ phase = 2
    /\ ptypes = <<>>
    /\ scroll = NoScroll
    /\ hits = <<>>
    /\ index0 = {}
    /\ ends = <<>>
    /\ done = {"purge"}
    /\ steps = <<>>
    /\ indexer = NewBulkIndexer(BulkSize)
    /\ submitted = <<>>
    /\ lastOp = NoOp
    /\ adds = 0
    /\ CursorIdle
    /\ IncIdle
    /\ EnvIdle

NextRebuild ==
    \/ BeginRebuildAny
    \/ RebuildNext
    \/ RebuildFlush

SpecRebuild == InitRebuild /\ [][NextRebuild]_vars

\* ------------------------------------------------------------------------
\* main.go: doPeriodicMode
\* ------------------------------------------------------------------------

\* the body of a reindex message: the handler logs it and reads nothing of it
ReindexBody == [valid |-> TRUE, id |-> EmptyId]

\* AddConsumerMulti with a concurrency of 1: a handler is started for a
\* delivery only while fewer than 1 handlers are running
MayStartAlways(run) == TRUE
MayStart(run) == Cardinality(run) < 1

\* the handler is started with a reindex message and calls Reindex. (A
\* handler started while another one runs would run its Reindex over the
\* same index; the model does not follow that second Reindex.)
PeriodicDeliver ==
    \E m \in DOMAIN broker :
        /\ broker[m].state = "ready"
        /\ MayStart(running)
        /\ broker' = Delivered(broker, m)
        /\ running' = running \cup {m}
        /\ IF running = {}
           THEN CallReindex
           ELSE UNCHANGED <<incVars, cursorVars, bulkVars, sysVars>>
        /\ UNCHANGED mainVars

\* Reindex has returned: del.Ack(false), and the handler returns
PeriodicAck ==
    /\ pc = "done"
    /\ \E m \in running :
         /\ broker' = Settle(broker, m, broker[m].deliveries, AckCall)
         /\ running' = running \ {m}
    /\ UNCHANGED <<mainVars, incVars, cursorVars, bulkVars, sysVars>>

\* periodic mode: MaxMsgs reindex messages were published, against any table
\* and any few documents left in the index
InitPeriodic ==
    /\ db \in Tables
    /\ index \in {s \in SUBSET StaleDocs : Cardinality(s) <= MaxDocs0}
    /\ faults = 0
    /\ broker = [m \in Msgs |-> NewMessage(ReindexBody)]
    /\ running = {}
    /\ MainIdle
    /\ ReindexIdle
    /\ IncIdle
    /\ CursorIdle
    /\ BulkIdle

NextPeriodic ==
    \/ PeriodicDeliver
    \/ BeginPurge
    \/ PurgeScroll
    \/ PurgeHit
    \/ PurgeFlush
    \/ BeginRebuild
    \/ RebuildNext
    \/ RebuildFlush
    \/ PeriodicAck

SpecPeriodic == InitPeriodic /\ [][NextPeriodic]_vars

\* ------------------------------------------------------------------------
\* The BulkIndexer on its own: any bulkSize, any order of Add and Flush,
\* any outcome of each submission
\* ------------------------------------------------------------------------

InitBulk ==
    /\ \E n \in 1..MaxBulkSize : indexer = NewBulkIndexer(n)
    /\ submitted = <<>>
    /\ lastOp = NoOp
    /\ adds = 0
    /\ CursorIdle
    /\ SysIdle

\* one call of indexer.Add with a new request
CallAdd ==
    /\ adds < MaxAdds
    /\ Len(submitted) < MaxSubmits
    /\ \E ok \in BOOLEAN :
         LET res == Add(indexer, adds + 1, ok) IN
         /\ indexer' = res.b
         /\ submitted' = Record(submitted, res, "Add")
         /\ lastOp' = [op |-> "Add", err |-> res.err, before |-> indexer.queue]
    /\ adds' = adds + 1
    /\ UNCHANGED <<cursorVars, sysVars, incVars, envVars>>

\* one call of indexer.Flush
CallFlush ==
    /\ Len(submitted) < MaxSubmits
    /\ \E ok \in BOOLEAN :
         LET res == Flush(indexer, ok) IN
         /\ indexer' = res.b
         /\ submitted' = Record(submitted, res, "Flush")
         /\ lastOp' = [op |-> "Flush", err |-> res.err, before |-> indexer.queue]
    /\ UNCHANGED <<adds, cursorVars, sysVars, incVars, envVars>>

NextBulk == CallAdd \/ CallFlush

SpecBulk == InitBulk /\ [][NextBulk]_vars

\* ------------------------------------------------------------------------
\* The cursor on its own, over every sorted row stream within the bounds
\* ------------------------------------------------------------------------

InitCursor ==
    /\ \E data \in SortedStreams :
       \E kind \in {"none", "scan", "iter"} :
       \E at \in 1..(Len(data) + 1) :
          /\ kind = "none" => at = 1
          /\ kind = "scan" => at <= Len(data)
          /\ rows = NewRows(data, kind, at)
    /\ o = newObjectCursor
    /\ groups = <<>>
    /\ lastErr = "none"
    /\ errSeen = FALSE
    /\ pulls = 0
    /\ BulkIdle
    /\ SysIdle

\* one call of cursor.Next()
Pull ==
    /\ pulls < MaxPulls
    /\ LET n == CursorNext(rows, o) IN
       /\ rows' = n.rows
       /\ o' = n.o
       /\ groups' = IF n.err = "nil" THEN Append(groups, n.retval) ELSE groups
       /\ lastErr' = n.err
       /\ errSeen' = (errSeen \/ n.err = "err")
    /\ pulls' = pulls + 1
    /\ UNCHANGED <<bulkVars, sysVars, incVars, envVars>>

NextCursor == Pull

SpecCursor == InitCursor /\ [][NextCursor]_vars

\* ------------------------------------------------------------------------
\* Claims about the cursor
\* ------------------------------------------------------------------------

RECURSIVE Flatten(_)
Flatten(gs) == IF gs = <<>> THEN <<>> ELSE Head(gs) \o Flatten(Tail(gs))

TargetsOf(data) == {data[i].TargetId : i \in 1..Len(data)}

\* the stream has been read to its end without a fault
CleanEOS == lastErr = "EOS" /\ ~errSeen /\ rows.failKind = "none"

\* C1: for a non-empty stream sorted by targetID, pulling until EOS emits
\* groups in which every input row appears exactly once, the rows of a group
\* share one targetID, and there are as many groups as distinct targetIDs.
C1_Grouping ==
    (CleanEOS /\ Len(rows.data) > 0) =>
        /\ \A i \in 1..Len(rows.data) :
              Cardinality({<<g, j>> \in (1..Len(groups)) \X (1..MaxRows) :
                              j <= Len(groups[g]) /\ groups[g][j] = rows.data[i]}) = 1
        /\ Len(Flatten(groups)) = Len(rows.data)
        /\ \A g \in 1..Len(groups) :
              /\ groups[g] # <<>>
              /\ \A j \in 1..Len(groups[g]) :
                    groups[g][j].TargetId = groups[g][1].TargetId
        /\ Len(groups) = Cardinality(TargetsOf(rows.data))

\* a stream of four rows read to EOS: a group of two rows between two others
C1_Witness ==
    /\ CleanEOS
    /\ Len(rows.data) = 4
    /\ Len(groups) = 3
    /\ Len(groups[2]) = 2

\* C2: for an empty row stream the first Next returns EOS and no call of Next
\* returns a group, not even an empty one.
C2_EmptyStream ==
    (rows.data = <<>> /\ rows.failKind = "none" /\ pulls > 0) =>
        /\ lastErr = "EOS"
        /\ groups = <<>>

C2_Witness ==
    /\ rows.data = <<>>
    /\ rows.failKind = "none"
    /\ pulls = 2
    /\ lastErr = "EOS"

\* ------------------------------------------------------------------------
\* Claims about the BulkIndexer
\* ------------------------------------------------------------------------

FailedBefore(i) ==
    UNION {{submitted[k].batch[j] : j \in 1..Len(submitted[k].batch)} :
              k \in {k \in 1..(i - 1) : ~submitted[k].ok}}

\* C4: Flush submits all queued requests as one batch and returns a failed
\* submission to its caller; when it returns the queue is empty, whether the
\* submission succeeded or failed, so no request of a failed batch is
\* submitted again.
C4_FlushClears ==
    /\ lastOp.op = "Flush" =>
          /\ indexer.queue = <<>>
          /\ lastOp.before # <<>> =>
                /\ submitted # <<>>
                /\ submitted[Len(submitted)].batch = lastOp.before
                /\ lastOp.err = ~submitted[Len(submitted)].ok
    /\ \A i \in 1..Len(submitted) : \A j \in 1..Len(submitted[i].batch) :
          submitted[i].batch[j] \notin FailedBefore(i)

\* ------------------------------------------------------------------------
\* Claims about Reindex
\* ------------------------------------------------------------------------

HasDoc(idx, t, x) == \E e \in idx : e.type = t /\ e.ID = x

\* the table holds an AVU attached to x as type t
HasAVUOfType(x, t) ==
    \E r \in TableRows(db) : r.TargetId = x /\ r.TargetType = t

\* the table holds an AVU attached to x
HasAVU(x) == \E r \in TableRows(db) : r.TargetId = x

\* a first Reindex has returned and met no I/O failure
CleanRun == pc = "done" /\ Len(ends) = 1 /\ faults = 0

\* C5 as claimed: after a Reindex without I/O failure the index holds a
\* <T>_metadata document with id X exactly when the table holds an AVU
\* attached to X with type T in {file, folder}, from any index content.
C5_ExactlyTheObjects ==
    CleanRun =>
        \A t \in {"file", "folder"} : \A x \in Ids :
            HasDoc(index, IndexedType(t), x) <=> HasAVUOfType(x, t)

\* C5 as amended: after a Reindex without I/O failure the index holds a
\* <T>_metadata document with id X exactly when the table holds an AVU
\* attached to X with type T, or the index held such a document before the
\* run and the table holds an AVU attached to X under another type; and no
\* two documents share a type and an id.
C5_ObjectsAndKeptDocs ==
    CleanRun =>
        /\ \A t \in {"file", "folder"} : \A x \in Ids :
              HasDoc(index, IndexedType(t), x) <=>
                 \/ HasAVUOfType(x, t)
                 \/ HasDoc(index0, IndexedType(t), x) /\ HasAVU(x)
        /\ \A e \in index : \A f \in index :
              (e.type = f.type /\ e.ID = f.ID) => e = f

\* a clean run that removed a document, wrote one and kept one of another
\* type than its object
C5_Witness ==
    /\ CleanRun
    /\ \E e \in index0 : e \notin index /\ ~HasDoc(index, e.type, e.ID)
    /\ \E e \in index : e.avus # {}
    /\ \E e \in index : e \in index0

\* the positions of the batches of the current run
ThisRun == {i \in 1..Len(submitted) : submitted[i].by.run = Len(ends) + 1}

\* C6: in every Reindex all of Purge is over before Rebuild reads a row or
\* enqueues an upsert: Rebuild runs only once Purge has returned, it starts
\* on a buffer of its own that is empty, no batch of Purge follows a batch
\* of Rebuild in the run, and no batch of Rebuild carries a delete.
C6_PurgeBeforeRebuild ==
    /\ pc \in {"rebuild_loop", "rebuild_flush"} =>
          /\ "purge" \in done
          /\ ptypes = <<>> /\ hits = <<>>
    /\ (pc = "rebuild_loop" /\ rows.pos = 0) => indexer.queue = <<>>
    /\ \A i \in 1..Len(submitted) :
          submitted[i].by.phase = "rebuild" =>
             \A j \in 1..Len(submitted[i].batch) : submitted[i].batch[j].op = "index"
    /\ \A i \in 1..Len(submitted) : \A j \in 1..Len(submitted) :
          (i < j /\ submitted[i].by.run = submitted[j].by.run
                 /\ submitted[i].by.phase = "rebuild")
             => submitted[j].by.phase = "rebuild"

\* a run in which Purge submitted deletes and Rebuild then submitted upserts
C6_Witness ==
    /\ pc = "done"
    /\ \E i \in 1..Len(submitted) : \E j \in 1..Len(submitted) :
          /\ i < j
          /\ submitted[i].by.run = submitted[j].by.run
          /\ submitted[i].by.phase = "purge"
          /\ submitted[j].by.phase = "rebuild"

\* C7: two Reindex runs in a row without I/O failure against an unchanged
\* table leave the same index after the second as after the first.
C7_Convergent ==
    (Len(ends) = 2 /\ faults = 0) => ends[2] = ends[1]

\* two clean runs that left a written document and a kept one
C7_Witness ==
    /\ Len(ends) = 2
    /\ faults = 0
    /\ \E e \in ends[2] : e.avus # {}
    /\ \E e \in ends[2] : e.avus = {}

\* ------------------------------------------------------------------------
\* Claims about incremental mode
\* ------------------------------------------------------------------------

\* the documents an index holds under one id
DocsOf(idx, x) == {e \in idx : e.ID = x}

\* ReindexOf is what Reindex computes: a run of Reindex that met no failure
\* left the index ReindexOf gives for the index and the table it started from
ReindexOfAgrees == CleanRun => index = ReindexOf(index0, db)

\* handler h has returned from an IndexOne whose lookup succeeded and whose
\* requests to the search index all succeeded
CleanIndexOne(h) ==
    handler[h].pc = "returned" /\ hist[h].read = "ok" /\ ~hist[h].fault

\* C8: IndexOne(id), run to its end without I/O failure after the AVUs of id
\* changed, leaves under id the documents (or the absence of documents) that
\* a Reindex without failure leaves under id from the same index and table;
\* and every request IndexOne sends is addressed to id, so the documents of
\* every other id stay as they are.
C8_IndexOneAsReindex ==
    \A h \in Handlers :
        /\ CleanIndexOne(h) =>
              DocsOf(index, handler[h].m.ID)
                  = DocsOf(ReindexOf(hist[h].idx0, db), handler[h].m.ID)
        /\ \A i \in 1..Len(sent[h]) : sent[h][i].req.ID = handler[h].m.ID

\* IndexOne replaced the document of one id after the table changed, with a
\* document of another id in the index
C8_Witness ==
    \E h \in Handlers :
        /\ CleanIndexOne(h)
        /\ changes > 0
        /\ DocsOf(index, handler[h].m.ID) # DocsOf(hist[h].idx0, handler[h].m.ID)
        /\ DocsOf(index, handler[h].m.ID) # {}
        /\ \E x \in Ids \ {handler[h].m.ID} : DocsOf(index, x) # {}

\* handler h has returned from a delivery whose body parsed and named an id
\* for which the lookup succeeded and the table holds no AVU
NoAVUsHandled(h) ==
    /\ handler[h].pc = "returned"
    /\ handler[h].del.Body.valid
    /\ handler[h].m.ID # EmptyId
    /\ hist[h].read = "ok"
    /\ GetObjectAVUs(db, handler[h].m.ID, TRUE).avus = <<>>

\* C9: a handler that received a well-formed message naming id X, where the
\* table holds no AVU of X, has by its return sent a delete request for X
\* for each indexed type and has settled the delivery with one Ack and
\* nothing else, whether X had a document and whatever the search index
\* answered.
C9_NoAVUsDeleteAndAck ==
    \A h \in Handlers :
        NoAVUsHandled(h) =>
            /\ \A t \in IndexTypes :
                  \E i \in 1..Len(sent[h]) :
                      sent[h][i].req = DeleteRequest(t, handler[h].m.ID)
            /\ \A i \in 1..Len(sent[h]) : sent[h][i].req.op = "delete"
            /\ settled[h] = <<AckCall>>

\* the case where X had no document and the case where it had one
C9_Witness ==
    \E h \in Handlers :
        /\ NoAVUsHandled(h)
        /\ DocsOf(hist[h].idx0, handler[h].m.ID) = {}
        /\ settled[h] = <<AckCall>>
        /\ \E i \in 1..Len(sent[h]) : ~sent[h][i].ok

\* C10: the first call that settles a delivery whose body does not parse is
\* Reject, with requeue true when the delivery is not marked redelivered and
\* requeue false when it is.
C10_MalformedRejected ==
    \A h \in Handlers :
        (handler[h].pc # "idle" /\ ~handler[h].del.Body.valid) =>
            /\ Len(settled[h]) >= 1
            /\ settled[h][1].op = "Reject"
            /\ settled[h][1].arg = (~handler[h].del.Redelivered)

\* a redelivered malformed delivery rejected without requeue
C10_Witness ==
    \E h \in Handlers :
        /\ handler[h].pc = "returned"
        /\ ~handler[h].del.Body.valid
        /\ handler[h].del.Redelivered
        /\ settled[h][1] = RejectCall(FALSE)

\* ------------------------------------------------------------------------
\* Claims about incremental mode and its queue
\* ------------------------------------------------------------------------

\* the body of message m does not parse
Malformed(m) == ~broker[m].body.valid

\* C11: with a broker that marks a requeued message as redelivered, a message
\* whose body does not parse is handed to the handler at most twice and is
\* never acknowledged or left in the queue: it ends dropped, after its
\* second delivery.
C11_BoundedRetry ==
    /\ [](\A m \in Msgs :
             Malformed(m) => /\ broker[m].deliveries <= 2
                             /\ broker[m].state # "acked"
                             /\ broker[m].state = "dropped" => broker[m].deliveries = 2)
    /\ \A m \in Msgs : [](Malformed(m) => <>[](broker[m].state = "dropped"))

\* a malformed message dropped after its redelivery
C11_Witness ==
    \E m \in DOMAIN broker :
        /\ Malformed(m)
        /\ broker[m].state = "dropped"
        /\ broker[m].redelivered
        /\ broker[m].deliveries = 2

\* C12: a handler whose delivery parsed calls IndexOne with the parsed id,
\* settles nothing before IndexOne has returned, and then calls Ack once and
\* nothing else, whether the lookup or a request to the search index failed
\* or not; every message that parses ends acknowledged after one delivery.
C12_ParsedThenAckOnce ==
    /\ [](\A h \in Handlers :
             (handler[h].pc # "idle" /\ handler[h].del.Body.valid) =>
                /\ handler[h].m.ID = handler[h].del.Body.id
                /\ handler[h].pc \in {"IndexOne", "DeleteOne", "Index", "Ack"}
                      => settled[h] = <<>>
                /\ handler[h].pc = "returned"
                      => settled[h] = <<AckCall>> /\ hist[h].read # "none")
    /\ \A m \in Msgs :
          [](~Malformed(m) =>
                <>[](broker[m].state = "acked" /\ broker[m].deliveries = 1))

\* a message acknowledged after an IndexOne whose lookup failed, and one after
\* an IndexOne whose request to the search index failed
C12_Witness ==
    \E h \in Handlers :
        /\ handler[h].pc = "returned"
        /\ handler[h].del.Body.valid
        /\ handler[h].m.ID # EmptyId
        /\ hist[h].read = "err" \/ hist[h].fault
        /\ broker[hist[h].msg].state = "acked"

\* ------------------------------------------------------------------------
\* Claims about periodic mode and the failures of Reindex
\* ------------------------------------------------------------------------

\* C13: a Reindex that failed never leaves its message unacknowledged: in no
\* state has the process ended while a delivered reindex message still
\* waits for its Ack.
C13_AckAfterReindex ==
    \A m \in DOMAIN broker : broker[m].state = "unacked" => pc # "exited"

\* some call of scanner.Do of the current Reindex failed
ScrollFailed == \E i \in 1..Len(steps) : steps[i].kind = "scroll" /\ steps[i].err

\* C14: after a scroll failure in the purge of one type the process keeps
\* running.
C14_ScrollFailureKeepsRunning == ScrollFailed => pc # "exited"

GetReceive(h) ==
    /\ handler[h].pc = "idle"
    /\ \E id \in NestIds \cup NestObjIds \cup {EmptyId} :
         OnDelivery(h, [Body |-> [valid |-> TRUE, id |-> id],
                        Redelivered |-> FALSE])
    /\ UNCHANGED <<envVars, cursorVars, bulkVars, sysVars, hist, delivered, changes>>

InitGet ==
    /\ db \in NestTables
    /\ index = {}
    /\ faults = 0
    /\ ReindexIdle
    /\ IncIdle
    /\ EnvIdle
    /\ CursorIdle
    /\ BulkIdle

NextGet == \E h \in Handlers : GetReceive(h) \/ IndexOne(h)

SpecGet == InitGet /\ [][NextGet]_vars

\* ------------------------------------------------------------------------
\* Claims about the loops of Purge and Rebuild
\* ------------------------------------------------------------------------

\* the number of the Reindex the history of steps belongs to
RunNow == IF pc = "done" THEN Len(ends) ELSE Len(ends) + 1

\* the turns of the history of one kind
StepsOf(kind) == {i \in 1..Len(steps) : steps[i].kind = kind}

\* IndexEverything has been entered in the current Reindex
InRebuild == \E i \in 1..Len(steps) : steps[i].phase = "rebuild"

\* the requests the phase has handed to a bulk request of the search index
Sent(name) ==
    UNION {{submitted[i].batch[j] : j \in 1..Len(submitted[i].batch)} :
              i \in {i \in 1..Len(submitted) :
                        submitted[i].by = [phase |-> name, run |-> RunNow]}}

\* the requests waiting in the buffer of the phase
Waiting(name) ==
    LET mine == IF name = "rebuild" THEN InRebuild
                ELSE /\ ~InRebuild
                     /\ \/ pc \in {"purge_scroll", "purge_hits", "purge_flush",
                                   "exited"}
                        \/ "purge" \in done IN
    IF mine THEN {indexer.queue[j] : j \in 1..Len(indexer.queue)} ELSE {}

\* a request without its document
Address(r) == [op |-> r.op, type |-> r.type, ID |-> r.ID]

\* C15: a failure in the step of one bundle (building its document,
\* enqueuing its upsert) does not end the loop of IndexEverything: when
\* the loop has ended and the rows themselves were read without a fault,
\* every target of the stream has had its turn.
C15_StepFailureDoesNotAbort ==
    (pc = "done" /\ InRebuild /\ rows.failKind = "none") =>
        TargetsOf(rows.data) \subseteq {steps[i].ID : i \in StepsOf("bundle")}

\* C16: PurgeType enqueues a delete for a hit exactly when GetObjectAVUs
\* returned no error and no row for its id, which is exactly when the table
\* holds no AVU of that id; the deletes of the phase are the deletes of
\* those hits, addressed to the hit's type and id.
C16_DeleteIffNoAVUs ==
    /\ \A i \in StepsOf("hit") :
          /\ steps[i].enq <=> steps[i].got = "empty"
          /\ steps[i].got = "empty" => ~HasAVU(steps[i].ID)
          /\ steps[i].got = "some" => HasAVU(steps[i].ID)
    /\ Sent("purge") \cup Waiting("purge") =
          {[op |-> "delete", type |-> steps[i].type, ID |-> steps[i].ID,
            avus |-> {}] : i \in {i \in StepsOf("hit") : steps[i].enq}}

\* Purge has returned after a hit it deleted and a hit it kept, for its
\* AVUs or because the lookup failed
C16_Witness ==
    /\ "purge" \in done
    /\ \E i \in StepsOf("hit") : steps[i].enq
    /\ \E i \in StepsOf("hit") : steps[i].got \in {"some", "err"}

\* the bundles of the history whose document was built
Built == {i \in StepsOf("bundle") : steps[i].got = "nil"}

\* C17: IndexEverything enqueues one upsert for each bundle of type file or
\* folder, addressed to <type>_metadata and the id of the bundle's target,
\* and for a bundle of another type enqueues nothing and goes on to the
\* next bundle.
C17_UpsertPerKnownBundle ==
    /\ \A i \in Built : steps[i].enq <=> steps[i].type \in {"file", "folder"}
    /\ \A i \in Built : \A j \in Built : i # j => steps[i].ID # steps[j].ID
    /\ \A i \in Built :
          ~steps[i].enq =>
             /\ ~steps[i].err
             /\ i < Len(steps) => steps[i + 1].kind = "bundle"
             /\ i = Len(steps) => pc = "rebuild_loop"
    /\ {Address(r) : r \in Sent("rebuild") \cup Waiting("rebuild")} =
          {[op |-> "index",
            type |-> IF steps[i].type = "file" THEN "file_metadata"
                     ELSE "folder_metadata",
            ID |-> steps[i].ID] : i \in {i \in Built : steps[i].enq}}

\* IndexEverything has returned after a folder it indexed and a bundle of
\* another type it skipped, and went on after the skipped one
C17_Witness ==
    /\ pc = "done"
    /\ \E i \in Built : steps[i].enq /\ steps[i].type = "folder"
    /\ \E i \in Built : \E j \in Built :
          /\ i < j
          /\ steps[i].type = "user" /\ ~steps[i].enq
          /\ steps[j].enq

\* the requests the phase enqueued
Enqueued(name) ==
    {[op |-> IF name = "purge" THEN "delete" ELSE "index",
      type |-> IF name = "purge" THEN steps[i].type
               ELSE IF steps[i].type = "file" THEN "file_metadata"
               ELSE "folder_metadata",
      ID |-> steps[i].ID] :
        i \in {i \in 1..Len(steps) : steps[i].phase = name /\ steps[i].enq}}

\* the phase of the current Reindex has ended
PhaseOver(name) ==
    \/ name \in done /\ steps # <<>>
    \/ pc = "exited" /\ (name = "rebuild" <=> InRebuild)

\* C18: when Purge or Rebuild has ended, every request it enqueued has been
\* handed to a bulk request of the search index.
C18_FlushedAtPhaseEnd ==
    \A name \in {"purge", "rebuild"} :
        PhaseOver(name) =>
            Enqueued(name) \subseteq {Address(r) : r \in Sent(name)}

\* ------------------------------------------------------------------------
\* Claims about the queries of the avus table
\* ------------------------------------------------------------------------

RECURSIVE AttachedTo(_, _, _)
\* AVU a of table d is attached to id, itself or through the AVUs it is
\* attached to
AttachedTo(d, a, id) ==
    /\ d[a].TargetType # "none"
    /\ \/ d[a].TargetId = id
       \/ d[a].TargetType = "avu" /\ AttachedTo(d, d[a].TargetId, id)

\* the handlers whose call of GetObjectAVUs has returned without an error
Got == {h \in Handlers : handler[h].pc \notin {"idle", "IndexOne"}
                            /\ hist[h].read = "ok"}

\* C20: GetObjectAVUs(id) returns, once each, the AVUs attached to id and
\* the AVUs attached at any depth to one of them, and no other; it returns
\* no error when the query succeeds, and then the empty sequence when no
\* AVU is attached to id.
C20_ExactlyTheSubtree ==
    /\ \A h \in Got :
          LET avus == handler[h].avus
              id == handler[h].m.ID IN
          /\ {avus[i].ID : i \in 1..Len(avus)} =
                {a \in DOMAIN db : AttachedTo(db, a, id)}
          /\ \A i \in 1..Len(avus) : \A j \in 1..Len(avus) :
                i # j => avus[i].ID # avus[j].ID
          /\ ~HasAVU(id) => avus = <<>>
    /\ \A h \in Handlers :
          (handler[h].pc \notin {"idle", "IndexOne"} /\ handler[h].m.ID # EmptyId
              /\ ~hist[h].fault) => h \in Got

\* a call has returned an AVU on an AVU on an AVU of an object
C20_Witness ==
    \E h \in Got :
        /\ Len(handler[h].avus) = 3
        /\ \E a \in DOMAIN db : \E b \in DOMAIN db :
              /\ db[a].TargetType = "avu" /\ db[a].TargetId = b
              /\ db[b].TargetType = "avu"
              /\ db[db[b].TargetId].TargetId = handler[h].m.ID

\* ------------------------------------------------------------------------
\* GetAllObjects on its own: the cursor over the rows of any table of
\* NestTables, pulled until after its end
\* ------------------------------------------------------------------------

\* GetAllObjects has returned its cursor; the connection may fail later
InitStream ==
    /\ db \in NestTables
    /\ \E kind \in {"none", "scan", "iter"} :
       \E at \in 1..(Len(AllObjectRows(db)) + 1) :
          /\ kind = "none" => at = 1
          /\ kind = "scan" => at <= Len(AllObjectRows(db))
          /\ rows = NewRows(AllObjectRows(db), kind, at)
    /\ o = newObjectCursor
    /\ groups = <<>>
    /\ lastErr = "none"
    /\ errSeen = FALSE
    /\ pulls = 0
    /\ index = {}
    /\ faults = 0
    /\ ReindexIdle
    /\ IncIdle
    /\ EnvIdle
    /\ BulkIdle

NextStream == Pull

SpecStream == InitStream /\ [][NextStream]_vars /\ WF_vars(NextStream)

\* ------------------------------------------------------------------------
\* Claims about GetAllObjects and GetAVU
\* ------------------------------------------------------------------------

\* the groups Next returned for target x
GroupsOf(x) == {g \in 1..Len(groups) : groups[g] # <<>> /\ groups[g][1].TargetId = x}

\* C21: over a table whose AVU-on-AVU attachments form a forest, the cursor
\* of GetAllObjects reaches end-of-stream after at most one group per
\* target, and once it has, each object with an AVU has exactly one group,
\* holding once each the AVUs attached to it directly or through AVUs,
\* under the object's id and type.
C21_StreamCoversEveryObject ==
    /\ [](Len(groups) <= Cardinality(TargetsOf(rows.data)))
    /\ []((rows.failKind = "none" /\ pulls > Cardinality(TargetsOf(rows.data)))
             => lastErr = "EOS")
    /\ <>(lastErr = "EOS")
    /\ [](CleanEOS =>
            \A x \in NestObjIds :
                IF ~HasAVU(x) THEN GroupsOf(x) = {}
                ELSE /\ Cardinality(GroupsOf(x)) = 1
                     /\ \A g \in GroupsOf(x) :
                          /\ {groups[g][j].ID : j \in 1..Len(groups[g])} =
                                {a \in DOMAIN db : AttachedTo(db, a, x)}
                          /\ Len(groups[g]) =
                                Cardinality({a \in DOMAIN db : AttachedTo(db, a, x)})
                          /\ \A j \in 1..Len(groups[g]) :
                                /\ groups[g][j].TargetId = x
                                /\ \E a \in DOMAIN db :
                                      /\ db[a].TargetId = x
                                      /\ db[a].TargetType = groups[g][j].TargetType)

\* the stream of an object with an AVU on an AVU on an AVU has ended: the
\* object's group holds the three
C21_Witness ==
    /\ CleanEOS
    /\ \E x \in NestObjIds : \E g \in GroupsOf(x) : Len(groups[g]) = 3
    /\ \E a \in DOMAIN db : \E b \in DOMAIN db :
          /\ db[a].TargetType = "avu" /\ db[a].TargetId = b
          /\ db[b].TargetType = "avu"

\* ------------------------------------------------------------------------
\* GetAVU on its own: called with any id over any table of NestTables
\* ------------------------------------------------------------------------

InitGetAVU ==
    /\ db \in NestTables
    /\ index = {}
    /\ faults = 0
    /\ ReindexIdle
    /\ IncIdle
    /\ EnvIdle
    /\ CursorIdle
    /\ BulkIdle

\* one call of GetAVU; the connection may fail at the query, at a step or
\* at the Scan of a row
CallGetAVU ==
    /\ \E uuid \in NestIds \cup NestObjIds \cup {EmptyId} :
       \E ok \in BOOLEAN, kind \in {"none", "scan", "iter"}, at \in 1..2 :
          /\ kind = "none" => at = 1
          /\ LET res == GetAVU(db, uuid, ok, kind, at) IN
             found' = [uuid |-> uuid, called |-> TRUE, ar |-> res.ar,
                       err |-> res.err]
    /\ UNCHANGED <<broker, running, proc, incVars, cursorVars, bulkVars, sysVars>>

NextGetAVU == CallGetAVU

SpecGetAVU == InitGetAVU /\ [][NextGetAVU]_vars

\* the AVUs of the table with the id GetAVU was called with
Stored == {a \in DOMAIN db : db[a].TargetType # "none" /\ a = found.uuid}

\* C22: when the connection does not fail, GetAVU(id) returns the record
\* with that id and no error if one stored AVU has that id, fails with
\* ErrNoRows if none has, and fails with "more than one row" only if more
\* than one stored AVU has that id.
C22_GetAVUOneRecord ==
    (found.called /\ found.err \notin {"query", "rows", "scan"}) =>
        /\ Cardinality(Stored) = 1 =>
              /\ found.err = "nil"
              /\ Len(found.ar) = 1
              /\ found.ar[1].ID = found.uuid
        /\ Cardinality(Stored) = 0 => found.err = "ErrNoRows"
        /\ found.err = "more" => Cardinality(Stored) > 1

\* ------------------------------------------------------------------------
\* main.go: main, from its flags to the mode it serves
\* ------------------------------------------------------------------------

\* the values of --mode, --config and --version the process is started
\* with: the three modes, no mode, and a word that is no mode
Modes == {"full", "periodic", "incremental", "", "hourly"}
CfgPaths == {"", "/etc/templeton.yaml"}

\* checkMode: the modes it accepts
validModesOrNone == {"periodic", "incremental", "full", ""}
validModes == {"periodic", "incremental", "full"}

\* os.Exit(code): the status the parent sees
ExitStatus(code) == code % 256

\* main after NewDatabaser: full mode, or on to the broker
AfterDatabaserNeverFull(m) == "amqp"
AfterDatabaser(m) == IF m = "full" THEN "full" ELSE "amqp"

\* fmt.Sprintf of the names listenForEvents and handlePing build
EventsQueue(m) == "events.templeton." \o m \o ".queue"
EventsKey(m) == "events.templeton." \o m \o ".#"
PingKey(m) == "events.templeton." \o m \o ".ping"
PongKeyAsPing(m) == PingKey(m)
PongKey(m) == "events.templeton." \o m \o ".pong"
PongFromBare(m) == "templeton"
PongFrom(m) == "templeton-" \o m

\* getQueueName with an empty prefix
getQueueName(m) == "templeton." \o m

\* the routing keys a delivery on the events queue can carry
EventKeys(m) == {PingKey(m), "events.templeton." \o m \o ".other"}

\* os.Exit(code), and log.Fatal as os.Exit(1)
Exit(code) == proc' = [proc EXCEPT !.pc = "exited", !.status = ExitStatus(code)]

\* what main leaves alone while it starts
MainFrame == UNCHANGED <<broker, running, found, incVars, cursorVars, bulkVars, sysVars>>

\* main: `if *showVersion`
MainVersion ==
    /\ proc.pc = "main"
    /\ IF proc.showVersion THEN Exit(0)
       ELSE proc' = [proc EXCEPT !.pc = "checkMode"]
    /\ MainFrame

\* checkMode()
checkMode ==
    /\ proc.pc = "checkMode"
    /\ IF proc.mode \in validModes
       THEN proc' = [proc EXCEPT !.pc = "config"]
       ELSE Exit(-1)
    /\ MainFrame

\* main: `if *cfgPath == ""`, then initConfig, which may fail
initConfig ==
    /\ proc.pc = "config"
    /\ IF proc.cfgPath = "" THEN Exit(-1)
       ELSE \E ok \in BOOLEAN :
               IF ok THEN proc' = [proc EXCEPT !.pc = "es"] ELSE Exit(1)
    /\ MainFrame

\* elasticsearch.NewElasticer
NewElasticer ==
    /\ proc.pc = "es"
    /\ \E ok \in BOOLEAN :
          IF ok THEN proc' = [proc EXCEPT !.pc = "db", !.opened = @ \cup {"es"}]
          ELSE Exit(1)
    /\ MainFrame

\* database.NewDatabaser, and `if *mode == "full"`
NewDatabaser ==
    /\ proc.pc = "db"
    /\ \E ok \in BOOLEAN :
          IF ok THEN proc' = [proc EXCEPT !.pc = AfterDatabaser(proc.mode),
                                          !.opened = @ \cup {"db"}]
          ELSE Exit(1)
    /\ MainFrame

\* doFullMode: es.Reindex(d) is called
doFullMode ==
    /\ proc.pc = "full"
    /\ CallReindex
    /\ proc' = [proc EXCEPT !.pc = "reindexing", !.reindexes = @ + 1]
    /\ UNCHANGED <<broker, running, found>>

\* Reindex has returned to doFullMode, which returns to main, which returns:
\* the deferred es.Close(), exit status 0
FullReturn ==
    /\ proc.pc = "reindexing"
    /\ pc = "done"
    /\ proc' = [proc EXCEPT !.pc = "exited", !.status = 0,
                            !.closed = @ \cup {"es"}]
    /\ MainFrame

\* messaging.NewClient, exportVars, go client.Listen()
NewClient ==
    /\ proc.pc = "amqp"
    /\ \E ok \in BOOLEAN :
          IF ok THEN proc' = [proc EXCEPT !.pc = "events", !.opened = @ \cup {"amqp"}]
          ELSE Exit(1)
    /\ MainFrame

\* listenForEvents: SetupPublishing, then the consumer of the events queue
listenForEvents ==
    /\ proc.pc = "events"
    /\ \E ok \in BOOLEAN :
          IF ok
          THEN proc' = [proc EXCEPT
                          !.pc = "mode",
                          !.consumers = @ \cup {[queue |-> EventsQueue(proc.mode),
                                                 key |-> EventsKey(proc.mode)]}]
          ELSE Exit(1)
    /\ MainFrame

\* main: doPeriodicMode or doIncrementalMode up to spin(); with any other
\* mode main returns
StartMode ==
    /\ proc.pc = "mode"
    /\ IF proc.mode \in {"periodic", "incremental"}
       THEN proc' = [proc EXCEPT
                       !.pc = "spin",
                       !.consumers = @ \cup {[queue |-> getQueueName(proc.mode),
                                              key |-> proc.mode]}]
       ELSE proc' = [proc EXCEPT !.pc = "exited", !.status = 0,
                                 !.closed = @ \cup {"es", "amqp"}]
    /\ MainFrame

\* the handler of the events queue, for one delivery: Ack, then handlePing
\* when the routing key is the ping key; Publish may fail
EventsHandler ==
    /\ proc.pc \in {"mode", "spin"}
    /\ \E c \in proc.consumers : c.queue = EventsQueue(proc.mode)
    /\ proc.pings < MaxPings
    /\ \E key \in EventKeys(proc.mode), ok \in BOOLEAN :
          /\ key # PingKey(proc.mode) => ok
          /\ proc' = [proc EXCEPT
                        !.pings = @ + 1,
                        !.pongs = IF key = PingKey(proc.mode)
                                  THEN Append(@, [key |-> PongKey(proc.mode),
                                                  PongFrom |-> PongFrom(proc.mode),
                                                  ok |-> ok, n |-> proc.pings + 1])
                                  ELSE @]
    /\ MainFrame

\* the process is started with any flags, against any table and any few
\* documents left in the index
InitMain ==
    /\ proc \in {[NoProc EXCEPT !.pc = "main", !.showVersion = v, !.mode = m,
                                !.cfgPath = c] :
                    v \in BOOLEAN, m \in Modes, c \in CfgPaths}
    /\ found = NoCall
    /\ broker = <<>>
    /\ running = {}
    /\ db \in Tables
    /\ index \in {s \in SUBSET StaleDocs : Cardinality(s) <= MaxDocs0}
    /\ faults = 0
    /\ ReindexIdle
    /\ IncIdle
    /\ CursorIdle
    /\ BulkIdle

NextMain ==
    \/ MainVersion
    \/ checkMode
    \/ initConfig
    \/ NewElasticer
    \/ NewDatabaser
    \/ doFullMode
    \/ BeginPurge
    \/ PurgeScroll
    \/ PurgeHit
    \/ PurgeFlush
    \/ BeginRebuild
    \/ RebuildNext
    \/ RebuildFlush
    \/ FullReturn
    \/ NewClient
    \/ listenForEvents
    \/ StartMode
    \/ EventsHandler

SpecMain == InitMain /\ [][NextMain]_vars /\ WF_vars(NextMain)

\* ------------------------------------------------------------------------
\* Claims about main
\* ------------------------------------------------------------------------

\* the process has ended: main returned or called os.Exit, or Reindex
\* called log.Fatal
Exited == proc.pc = "exited" \/ pc = "exited"

\* a Reindex is in progress
Reindexing == pc \notin {"idle", "done", "exited"}

\* C23: in full mode the process calls Reindex once, waits for it and then
\* ends; it opens no connection to the broker, registers no consumer and
\* answers no delivery.
C23_FullModeOnce ==
    /\ [](proc.mode = "full" =>
            /\ proc.reindexes <= 1
            /\ "amqp" \notin proc.opened
            /\ proc.consumers = {}
            /\ proc.pings = 0 /\ proc.pongs = <<>>
            /\ Reindexing => proc.pc = "reindexing"
            /\ (proc.pc = "exited" /\ ~proc.showVersion /\ proc.status = 0) =>
                  /\ proc.reindexes = 1
                  /\ pc = "done" /\ Len(ends) = 1)
    /\ [](proc.mode # "full" => proc.reindexes = 0 /\ ~Reindexing)
    /\ (proc.mode = "full") => <>Exited

\* full mode has ended after its Reindex, which changed the index
C23_Witness ==
    /\ proc.mode = "full"
    /\ proc.pc = "exited"
    /\ proc.reindexes = 1
    /\ pc = "done"
    /\ index # index0

\* C24: the process ends with status 0 on --version, whatever the mode,
\* and when full mode returns; it ends with a status other than 0, before
\* any connection is opened and any Reindex is called, when the mode is
\* none of full, periodic, incremental, and when --config is missing.
C24_ExitStatus ==
    /\ proc.showVersion =>
          /\ proc.pc \in {"main", "exited"}
          /\ proc.pc = "exited" => proc.status = 0
          /\ proc.opened = {} /\ proc.reindexes = 0
    /\ (~proc.showVersion /\ proc.mode \notin {"full", "periodic", "incremental"}) =>
          /\ proc.pc \in {"main", "checkMode", "exited"}
          /\ proc.pc = "exited" => proc.status # 0
          /\ proc.opened = {} /\ proc.reindexes = 0
    /\ (~proc.showVersion /\ proc.cfgPath = "") =>
          /\ proc.pc \in {"main", "checkMode", "config", "exited"}
          /\ proc.pc = "exited" => proc.status # 0
          /\ proc.opened = {} /\ proc.reindexes = 0
    /\ (proc.mode = "full" /\ proc.pc = "exited" /\ pc = "done") => proc.status = 0

\* the process has ended with status 255 for a missing --config under a
\* mode that is one of the three
C24_Witness ==
    /\ proc.pc = "exited"
    /\ ~proc.showVersion
    /\ proc.mode \in {"full", "periodic", "incremental"}
    /\ proc.cfgPath = ""
    /\ proc.status = 255

\* the consumer of the events queue is registered
Subscribed ==
    \E c \in proc.consumers : c.queue = EventsQueue(proc.mode)

\* every ping delivered so far was answered with a pong naming the mode
Answered ==
    /\ \A i \in 1..Len(proc.pongs) :
          /\ proc.pongs[i].PongFrom = "templeton-" \o proc.mode
          /\ proc.pongs[i].key = "events.templeton." \o proc.mode \o ".pong"
    /\ \A i \in 1..Len(proc.pongs) : \A j \in 1..Len(proc.pongs) :
          i # j => proc.pongs[i].n # proc.pongs[j].n

\* the process has started the work of its mode
Serving == proc.pc \in {"reindexing", "spin"}

\* C28 as claimed: in each of the three modes the process at work has
\* subscribed to its ping channel and answers each ping with a pong naming
\* the mode.
C28_EveryModePongs ==
    (proc.mode \in {"full", "periodic", "incremental"} /\ Serving) =>
        Subscribed /\ Answered

\* C28 amended: periodic and incremental mode subscribe to the ping channel
\* before they consume their queue and answer each ping with one pong from
\* templeton-<mode>; full mode subscribes to nothing and answers no ping.
C28_ServingModesPong ==
    /\ (proc.mode \in {"periodic", "incremental"} /\ Serving) => Subscribed
    /\ Answered
    /\ Len(proc.pongs) <= proc.pings
    /\ proc.mode = "full" => proc.consumers = {} /\ proc.pongs = <<>>
    /\ proc.pongs # <<>> => Subscribed

\* periodic mode has answered two pings
C28_Witness ==
    /\ proc.mode = "periodic"
    /\ proc.pc = "spin"
    /\ Len(proc.pongs) = 2

\* ------------------------------------------------------------------------
\* Claims about what IndexOne touches, and about failures in the loops
\* ------------------------------------------------------------------------

\* no BulkIndexer holds or has sent a request and no purge has scrolled
NoBulkNoScroll ==
    /\ indexer.queue = <<>>
    /\ submitted = <<>>
    /\ adds = 0
    /\ scroll = NoScroll
    /\ hits = <<>>
    /\ steps = <<>>
    /\ pc = "idle"

\* C25 as claimed: IndexOne uses no BulkIndexer and no scroll, and sends
\* the search index a single request for its id.
C25_SingleRequest ==
    /\ NoBulkNoScroll
    /\ \A h \in Handlers : Len(sent[h]) <= 1

\* C25 amended: IndexOne uses no BulkIndexer and no scroll; for its id it
\* sends, each as a call of its own that it waits for, one index request,
\* or the delete of file_metadata/id and then the delete of
\* folder_metadata/id when the id has no AVU, or nothing.
C25_NoBufferNoScroll ==
    /\ NoBulkNoScroll
    /\ \A h \in Handlers :
          LET reqs == sent[h]
              id == handler[h].m.ID IN
          /\ \A i \in 1..Len(reqs) : reqs[i].req.ID = id
          /\ \/ reqs = <<>>
             \/ /\ Len(reqs) = 1
                /\ reqs[1].req.op = "index"
                /\ handler[h].pc \in {"Ack", "returned"}
             \/ /\ Len(reqs) = 1
                /\ reqs[1].req = DeleteRequest("file_metadata", id)
                /\ handler[h].pc = "DeleteOne"
             \/ /\ Len(reqs) = 2
                /\ reqs[1].req = DeleteRequest("file_metadata", id)
                /\ reqs[2].req = DeleteRequest("folder_metadata", id)
                /\ handler[h].pc \in {"Ack", "returned"}
          /\ handler[h].pc \in {"Ack", "returned"} =>
                (Len(reqs) = 2 <=> (hist[h].read = "ok" /\ handler[h].avus = <<>>))

\* a handler has returned from an IndexOne that sent its two deletes, and
\* the index lost a document by them
C25_Witness ==
    \E h \in Handlers :
        /\ handler[h].pc = "returned"
        /\ Len(sent[h]) = 2
        /\ index # hist[h].idx0

\* ------------------------------------------------------------------------
\* PurgeIndex on its own: over up to MaxPurgeDocs documents of any id of the
\* table, so that one type can hold more documents than the buffer
\* ------------------------------------------------------------------------

\* documents some earlier run left in the index, under the id of an object
\* or of anything else
PurgeDocs == {Doc(t, x, {}) : t \in IndexTypes, x \in Ids}

InitPurge ==
    /\ db \in Tables
    /\ index \in {s \in SUBSET PurgeDocs : Cardinality(s) <= MaxPurgeDocs}
    /\ index0 = index
    /\ faults = 0
    /\ pc = "phase"
    /\ phase = 1
    /\ ptypes = <<>>
    /\ scroll = NoScroll
    /\ hits = <<>>
    /\ ends = <<>>
    /\ done = {}
    /\ steps = <<>>
    /\ IncIdle
    /\ EnvIdle
    /\ CursorIdle
    /\ BulkIdle

NextPurge ==
    \/ BeginPurge
    \/ PurgeScroll
    \/ PurgeHit
    \/ PurgeFlush

SpecPurge == InitPurge /\ [][NextPurge]_vars

\* turn i of the history met a failed bulk submission, a failed scroll or a
\* failed row read
Failed(i) ==
    \/ steps[i].err
    \/ steps[i].kind = "bundle" /\ steps[i].got = "err"

\* C26: after a failed bulk submission, scroll or row read in the purge of
\* one type or in the rebuild, that loop enqueues nothing more in the run.
C26_LoopStopsAfterFailure ==
    \A i \in 1..Len(steps) : \A j \in 1..Len(steps) :
        (/\ i < j
         /\ Failed(i)
         /\ steps[i].phase = steps[j].phase
         /\ steps[i].type = steps[j].type \/ steps[i].phase = "rebuild")
            => ~steps[j].enq

\* ------------------------------------------------------------------------
\* incremental mode with several deliveries in hand at once: AddConsumer is
\* given a prefetch count of 100, so a second handler can run before the
\* first has returned
\* ------------------------------------------------------------------------

\* the handlers that run at once
Pair == 1..MaxPair

InitPair ==
    /\ db \in Tables
    /\ index \in {s \in SUBSET StaleDocs : Cardinality(s) <= MaxDocs0}
    /\ index0 = index
    /\ faults = 0
    /\ pc = "idle"
    /\ phase = 0
    /\ ptypes = <<>>
    /\ scroll = NoScroll
    /\ hits = <<>>
    /\ ends = <<>>
    /\ done = {}
    /\ steps = <<>>
    /\ handler = [h \in Pair |-> NoHandler]
    /\ settled = [h \in Pair |-> <<>>]
    /\ sent = [h \in Pair |-> <<>>]
    /\ hist = [h \in Pair |-> NoHist]
    /\ delivered = 0
    /\ changes = 0
    /\ EnvIdle
    /\ CursorIdle
    /\ BulkIdle

\* a delivery whose body parses and names an id, to a handler that has had
\* none yet
PairReceive(h) ==
    /\ handler[h].pc = "idle"
    /\ delivered < MaxPair
    /\ \E id \in Ids :
         OnDelivery(h, [Body |-> [valid |-> TRUE, id |-> id], Redelivered |-> FALSE])
    /\ delivered' = delivered + 1
    /\ hist' = [hist EXCEPT ![h] = [NoHist EXCEPT !.n = delivered + 1]]
    /\ UNCHANGED <<envVars, cursorVars, bulkVars, sysVars, changes>>

NextPair ==
    \E h \in Pair :
        \/ PairReceive(h)
        \/ IndexOne(h)
        \/ DeleteOne(h)
        \/ IndexOneWrite(h)
        \/ IncAck(h)

SpecPair == InitPair /\ [][NextPair]_vars

\* the requests IndexOne(id) sends over table d when no call fails
IndexOneRequests(d, id) ==
    LET got == GetObjectAVUs(d, id, TRUE)
        next == IndexOneBranch(got) IN
    IF next = "DeleteOne"
    THEN [k \in 1..Len(DeleteOneTypes) |-> DeleteRequest(DeleteOneTypes[k], id)]
    ELSE IF next = "Index"
    THEN <<IndexRequest(IndexedType(got.avus[1].TargetType),
                        AVUsToIndexedObject(got.avus))>>
    ELSE <<>>

\* the index after IndexOne(id) ran alone from idx over table d
IndexOneOf(idx, d, id) == ApplyBulk(idx, IndexOneRequests(d, id))

RECURSIVE Accepted(_)
\* the requests of a handler that the search index accepted, in order
Accepted(s) ==
    IF s = <<>> THEN <<>>
    ELSE IF Head(s).ok THEN <<Head(s).req>> \o Accepted(Tail(s))
    ELSE Accepted(Tail(s))

\* handlers a and b were the two deliveries of the run, for different ids,
\* and both have finished IndexOne
BothDone(a, b) ==
    /\ a # b
    /\ delivered = 2
    /\ handler[a].pc = "returned"
    /\ handler[b].pc = "returned"
    /\ handler[a].m.ID # handler[b].m.ID

\* C27: two handlers at once on different ids, however their lookups and
\* requests interleave, leave the index that the two updates leave run one
\* after the other, in either order: without I/O failure that is IndexOne
\* of the one id and then of the other from the index they started from;
\* with failures it is the accepted requests of the one and then those of
\* the other.
C27_DistinctIdsIndependent ==
    \A a \in Pair : \A b \in Pair :
        BothDone(a, b) =>
            LET X == handler[a].m.ID
                Y == handler[b].m.ID IN
            /\ index = ApplyBulk(ApplyBulk(index0, Accepted(sent[a])),
                                 Accepted(sent[b]))
            /\ faults = 0 =>
                   index = IndexOneOf(IndexOneOf(index0, db, X), db, Y)

\* the two handlers wrote in turns: the first request of each was sent
\* before the other had finished, and each changed the index
C27_Witness ==
    \E a \in Pair : \E b \in Pair :
        /\ BothDone(a, b)
        /\ faults = 0
        /\ hist[a].idx0 = index0
        /\ hist[b].idx0 = index0
        /\ Len(sent[a]) = 2
        /\ Len(sent[b]) = 1
        /\ IndexOneOf(index0, db, handler[a].m.ID) # index0
        /\ IndexOneOf(index0, db, handler[b].m.ID) # index0

\* ------------------------------------------------------------------------
\* More claims about the cursor
\* ------------------------------------------------------------------------

\* the rows rows.Next() has stepped onto so far
Consumed == IF rows.pos > Len(rows.data) THEN Len(rows.data) ELSE rows.pos

\* the rows Next has returned in groups so far
Emitted == Len(Flatten(groups))

\* C29: as long as no read has failed, after any number of calls of Next
\* the rows read from the source are the rows already returned in groups
\* plus at most one; the rows returned are the first rows of the stream in
\* order; the one row read and not yet returned is the look-ahead row kept
\* in lastRow, whose targetID differs from that of the group returned by
\* the call that read it; and once the end of the stream has been seen
\* every row has been returned.
C29_OneRowLookAhead ==
    ~errSeen =>
        /\ Consumed - Emitted \in {0, 1}
        /\ Flatten(groups) = SubSeq(rows.data, 1, Emitted)
        /\ Consumed = Emitted + 1 =>
              /\ o.lastRow = rows.data[Consumed]
              /\ lastErr = "nil"
              /\ groups[Len(groups)] # <<>>
              /\ \A j \in 1..Len(groups[Len(groups)]) :
                    groups[Len(groups)][j].TargetId # o.lastRow.TargetId
        /\ rows.pos > Len(rows.data) => Emitted = Len(rows.data)

\* two calls of Next returned a group of two rows and a group of one row,
\* and the fourth row of the stream has been read and not returned
C29_Witness ==
    /\ ~errSeen
    /\ pulls = 2
    /\ Len(groups) = 2
    /\ Len(groups[1]) = 2
    /\ Consumed = 4
    /\ Emitted = 3

\* C30: a call of Next returns EOS only with the cursor at its end
\* (moreRows false), the call that returns the last group of the stream
\* leaves the cursor at its end, and every call made with the cursor at its
\* end returns EOS, returns no rows, reads nothing from the row source and
\* leaves the cursor as it is.
C30_EOSAbsorbing ==
    /\ [](lastErr = "EOS" => ~o.moreRows)
    /\ []((~errSeen /\ pulls > 0 /\ Emitted = Len(rows.data)) => ~o.moreRows)
    /\ [][~o.moreRows =>
             /\ lastErr' = "EOS"
             /\ groups' = groups
             /\ rows' = rows
             /\ o' = o]_vars

\* the stream was read to its last group and Next was then called twice
C30_Witness ==
    /\ CleanEOS
    /\ Len(groups) >= 2
    /\ pulls = Len(groups) + 2
    /\ Emitted = Len(rows.data)

\* ------------------------------------------------------------------------
\* More claims about incremental mode
\* ------------------------------------------------------------------------

\* C31: the incremental handler settles every delivery exactly once: when
\* it returns it has called one Reject or one Ack on the delivery, not
\* both and not neither.
C31_SettledExactlyOnce ==
    \A h \in Handlers :
        /\ Len(settled[h]) <= 1
        /\ handler[h].pc = "returned" => Len(settled[h]) = 1

\* C32: for a delivery whose body does not parse the handler makes no
\* lookup in the database and sends no index or delete request.
C32_MalformedTouchesNothing ==
    \A h \in Handlers :
        (handler[h].pc # "idle" /\ ~handler[h].del.Body.valid) =>
            /\ hist[h].read = "none"
            /\ sent[h] = <<>>

\* ------------------------------------------------------------------------
\* a process in periodic or full mode running Reindex while a process in
\* incremental mode handles a delivery, over the same database and the same
\* search index, and the avus table changes
\* ------------------------------------------------------------------------

\* the one Reindex of the run is called
MixedStart ==
    /\ pc = "idle"
    /\ CallReindex
    /\ UNCHANGED envVars

\* the one delivery of the run: a body that parses and names an object
MixedReceive(h) ==
    /\ handler[h].pc = "idle"
    /\ delivered = 0
    /\ \E id \in ObjIds :
         OnDelivery(h, [Body |-> [valid |-> TRUE, id |-> id], Redelivered |-> FALSE])
    /\ delivered' = delivered + 1
    /\ hist' = [hist EXCEPT ![h] = [NoHist EXCEPT !.n = delivered + 1]]
    /\ UNCHANGED <<envVars, cursorVars, bulkVars, sysVars, changes>>

InitMixed ==
    /\ db \in Tables
    /\ index \in {s \in SUBSET StaleDocs : Cardinality(s) <= MaxMixedDocs}
    /\ faults = 0
    /\ ReindexIdle
    /\ IncIdle
    /\ EnvIdle
    /\ CursorIdle
    /\ BulkIdle

NextMixed ==
    \/ MixedStart
    \/ BeginPurge
    \/ PurgeScroll
    \/ PurgeHit
    \/ PurgeFlush
    \/ BeginRebuild
    \/ RebuildNext
    \/ RebuildFlush
    \/ \E h \in Handlers :
         \/ MixedReceive(h)
         \/ IndexOne(h)
         \/ DeleteOne(h)
         \/ IndexOneWrite(h)
         \/ IncAck(h)
    \/ DbChange

SpecMixed == InitMixed /\ [][NextMixed]_vars

\* the turn just taken was a hit of PurgeType whose lookup failed
FailedHit ==
    /\ Len(steps') = Len(steps) + 1
    /\ steps'[Len(steps')].kind = "hit"
    /\ steps'[Len(steps')].got = "err"

\* handler h has just come back from a lookup that failed
FailedRead(h) == hist[h].read # "err" /\ hist'[h].read = "err"

\* C33: a failed lookup of the AVUs of an id causes no delete: the turn of
\* PurgeType for a hit whose lookup failed enqueues nothing and leaves the
\* buffer and the index as they are, and an IndexOne whose lookup failed
\* leaves the index as it is and sends no request at all before it returns.
C33_FailedLookupNoDelete ==
    /\ [](\A i \in 1..Len(steps) :
             (steps[i].kind = "hit" /\ steps[i].got = "err") => ~steps[i].enq)
    /\ [](\A h \in Handlers : hist[h].read = "err" => sent[h] = <<>>)
    /\ [][FailedHit => /\ index' = index
                       /\ indexer' = indexer
                       /\ submitted' = submitted]_vars
    /\ [][\A h \in Handlers :
             FailedRead(h) => /\ index' = index
                              /\ handler'[h].pc = "Ack"]_vars

\* a Reindex has ended in which the lookup for a hit failed: the document
\* is still in the index although the table holds no AVU for its id
C33_Witness ==
    /\ pc = "done"
    /\ changes = 0
    /\ \E i \in 1..Len(steps) :
         /\ steps[i].kind = "hit"
         /\ steps[i].got = "err"
         /\ HasDoc(index, steps[i].type, steps[i].ID)
         /\ ~HasAVU(steps[i].ID)

\* ------------------------------------------------------------------------
\* More claims about the rebuild
\* ------------------------------------------------------------------------

\* the upserts IndexEverything has enqueued, sent or still waiting
Upserts == Sent("rebuild") \cup Waiting("rebuild")

\* a call of cursor.Next() in the loop of IndexEverything returned an error
\* of the row stream
Struck == \E i \in StepsOf("bundle") : steps[i].got = "err"

\* the targets whose group was being read when the row stream failed: that
\* of the last row read before the fault and, for a failed Scan, that of the
\* row whose Scan failed
PartialTargets ==
    {rows.data[k].TargetId :
        k \in {k \in 1..Len(rows.data) :
                  \/ k = rows.failAt - 1
                  \/ k = rows.failAt /\ rows.failKind = "scan"}}

\* C34: IndexEverything enqueues no upsert built from a partial bundle: the
\* call of Next in which the row stream fails enqueues nothing and ends the
\* loop, no upsert of the run is addressed to the target whose group was
\* being read at the failure, and every upsert of the run carries all the
\* AVUs the stream holds for its target.
C34_NoPartialUpsert ==
    /\ \A i \in StepsOf("bundle") :
          steps[i].got = "err" =>
             /\ ~steps[i].enq
             /\ i < Len(steps) => steps[i + 1].kind = "flush"
             /\ i = Len(steps) => pc = "rebuild_flush"
    /\ Struck => \A r \in Upserts : r.ID \notin PartialTargets
    /\ InRebuild =>
          \A r \in Upserts :
              r.avus = {rows.data[k].ID :
                           k \in {k \in 1..Len(rows.data) :
                                     rows.data[k].TargetId = r.ID}}

\* IndexEverything has returned after it enqueued the upsert of one target
\* and the Scan of the second row of the next target's group failed
C34_Witness ==
    /\ pc = "done"
    /\ Struck
    /\ Upserts # {}
    /\ rows.failKind = "scan"
    /\ rows.failAt > 2
    /\ rows.data[rows.failAt - 1].TargetId = rows.data[rows.failAt].TargetId
    /\ rows.data[rows.failAt].TargetType = "file"

\* ------------------------------------------------------------------------
\* incremental mode with two deliveries in hand at once while the avus
\* table changes under them; no call fails in these runs
\* ------------------------------------------------------------------------

\* the avus table changes, whatever the handlers are doing
DbChangeAny ==
    /\ changes < MaxChanges
    /\ \E d \in Tables \ {db} : db' = d
    /\ changes' = changes + 1
    /\ UNCHANGED <<envVars, cursorVars, bulkVars, reindexVars, index, faults, handler,
                   settled, sent, hist, delivered>>

\* a delivery whose body parses and names an object, to a handler that has
\* had none yet
RaceReceive(h) ==
    /\ handler[h].pc = "idle"
    /\ delivered < MaxPair
    /\ \E id \in ObjIds :
         OnDelivery(h, [Body |-> [valid |-> TRUE, id |-> id], Redelivered |-> FALSE])
    /\ delivered' = delivered + 1
    /\ hist' = [hist EXCEPT ![h] = [NoHist EXCEPT !.n = delivered + 1]]
    /\ UNCHANGED <<envVars, cursorVars, bulkVars, sysVars, changes>>

InitRace ==
    /\ db \in Tables
    /\ index \in {s \in SUBSET StaleDocs : Cardinality(s) <= MaxMixedDocs}
    /\ index0 = index
    /\ faults = MaxFaults
    /\ pc = "idle"
    /\ phase = 0
    /\ ptypes = <<>>
    /\ scroll = NoScroll
    /\ hits = <<>>
    /\ ends = <<>>
    /\ done = {}
    /\ steps = <<>>
    /\ handler = [h \in Pair |-> NoHandler]
    /\ settled = [h \in Pair |-> <<>>]
    /\ sent = [h \in Pair |-> <<>>]
    /\ hist = [h \in Pair |-> NoHist]
    /\ delivered = 0
    /\ changes = 0
    /\ EnvIdle
    /\ CursorIdle
    /\ BulkIdle

NextRace ==
    \/ \E h \in Pair :
         \/ RaceReceive(h)
         \/ IndexOne(h)
         \/ DeleteOne(h)
         \/ IndexOneWrite(h)
         \/ IncAck(h)
    \/ DbChangeAny

SpecRace == InitRace /\ [][NextRace]_vars

\* handlers a and b were the two deliveries of the run, for the same id,
\* and both have finished IndexOne
BothDoneSame(a, b) ==
    /\ a # b
    /\ delivered = 2
    /\ handler[a].pc = "returned"
    /\ handler[b].pc = "returned"
    /\ handler[a].m.ID = handler[b].m.ID

\* C35: when two handlers for one id have both finished and the later of
\* their lookups read the AVUs the table holds now, the documents under
\* that id are those IndexOne leaves from the table as it is now: the
\* handler that read the older AVUs did not overwrite the other's result.
C35_SameIdEndsFresh ==
    \A a \in Pair : \A b \in Pair :
        (/\ BothDoneSame(a, b)
         /\ \/ handler[a].avus = GetObjectAVUs(db, handler[a].m.ID, TRUE).avus
            \/ handler[b].avus = GetObjectAVUs(db, handler[b].m.ID, TRUE).avus)
            => DocsOf(index, handler[a].m.ID)
                  = DocsOf(IndexOneOf(index, db, handler[a].m.ID), handler[a].m.ID)

\* C36: when a Reindex and an incremental update of one id have both
\* finished without I/O failure, and the table has not changed since the
\* incremental update read it, the documents under that id are those
\* IndexOne leaves from the table as it is: no request of the Reindex has
\* replaced the result of the incremental update with an older one.
C36_ReindexKeepsNewerUpdate ==
    \A h \in Handlers :
        (/\ pc = "done"
         /\ faults = 0
         /\ handler[h].pc = "returned"
         /\ handler[h].avus = GetObjectAVUs(db, handler[h].m.ID, TRUE).avus)
            => DocsOf(index, handler[h].m.ID)
                  = DocsOf(IndexOneOf(index, db, handler[h].m.ID), handler[h].m.ID)

\* ------------------------------------------------------------------------
\* main.go: the events queue with the exchange that feeds it. A routing key
\* is a sequence of words; the queue of listenForEvents is bound to the
\* exchange handlePing publishes to, with events.templeton.<mode>.#
\* ------------------------------------------------------------------------

\* the modes that reach listenForEvents
ServingModes == {"periodic", "incremental"}

\* the last word of the routing keys other clients publish with
EventKinds == {"ping", "pong", "other"}

\* the routing keys of the exchange, as words
KeySpace ==
    {<<"events", "templeton", m, k>> : m \in ServingModes, k \in EventKinds}

RECURSIVE Dotted(_)
\* a routing key as the string it is written as
Dotted(w) ==
    IF w = <<>> THEN ""
    ELSE IF Len(w) = 1 THEN w[1]
    ELSE w[1] \o "." \o Dotted(Tail(w))

\* the words of a routing key given as a string
WordsOf(s) == CHOOSE w \in KeySpace : Dotted(w) = s

\* the binding key of listenForEvents, as words
EventsBinding(m) == <<"events", "templeton", m, "#">>

RECURSIVE Matches(_, _)
\* topic exchange: does binding b match routing key k (# stands for any
\* number of words, * for one word)
Matches(b, k) ==
    IF b = <<>> THEN k = <<>>
    ELSE IF Head(b) = "#"
    THEN Matches(Tail(b), k) \/ (k # <<>> /\ Matches(b, Tail(k)))
    ELSE IF k = <<>> THEN FALSE
    ELSE (Head(b) = "*" \/ Head(b) = Head(k)) /\ Matches(Tail(b), Tail(k))

\* the events queue after a message with routing key k reached the
\* exchange; cause is the delivery whose handler published it (0: another
\* client did)
Route(q, k, cause) ==
    IF \E c \in proc.consumers :
          /\ c.key = Dotted(EventsBinding(proc.mode))
          /\ Matches(EventsBinding(proc.mode), k)
    THEN Append(q, [key |-> k, state |-> "ready", cause |-> cause])
    ELSE q

\* the messages the events queue is followed through
MaxEvents == 2 * MaxPings + 1

\* another client publishes a message to the exchange
ClientPublish ==
    /\ proc.pings < MaxPings
    /\ \E k \in KeySpace : broker' = Route(broker, k, 0)
    /\ proc' = [proc EXCEPT !.pings = @ + 1]
    /\ UNCHANGED <<running, found, incVars, cursorVars, bulkVars, sysVars>>

\* the handler of listenForEvents for the oldest message of the queue:
\* delivery.Ack, then handlePing when the routing key is the ping key; a
\* pong that was published goes through the exchange
EventsDeliver ==
    /\ Len(broker) < MaxEvents
    /\ \E i \in 1..Len(broker) :
         /\ broker[i].state = "ready"
         /\ \A j \in 1..(i - 1) : broker[j].state # "ready"
         /\ LET acked == [broker EXCEPT ![i].state = "acked"] IN
            IF Dotted(broker[i].key) = PingKey(proc.mode)
            THEN \E ok \in BOOLEAN :
                   /\ proc' = [proc EXCEPT !.pongs =
                                  Append(@, [key |-> PongKey(proc.mode),
                                             PongFrom |-> PongFrom(proc.mode),
                                             ok |-> ok, n |-> i])]
                   /\ broker' = IF ok
                                THEN Route(acked, WordsOf(PongKey(proc.mode)), i)
                                ELSE acked
            ELSE /\ proc' = proc
                 /\ broker' = acked
    /\ UNCHANGED <<running, found, incVars, cursorVars, bulkVars, sysVars>>

\* a process of periodic or incremental mode after listenForEvents, its
\* events queue empty
InitEvents ==
    /\ proc \in {[NoProc EXCEPT
                     !.pc = "spin", !.mode = m, !.cfgPath = "/etc/templeton.yaml",
                     !.opened = {"es", "db", "amqp"},
                     !.consumers = {[queue |-> EventsQueue(m), key |-> EventsKey(m)]}] :
                    m \in ServingModes}
    /\ found = NoCall
    /\ broker = <<>>
    /\ running = {}
    /\ db = [a \in AvuIds |-> NoRow(a)]
    /\ index = {}
    /\ faults = 0
    /\ ReindexIdle
    /\ IncIdle
    /\ CursorIdle
    /\ BulkIdle

NextEvents == ClientPublish \/ EventsDeliver

SpecEvents == InitEvents /\ [][NextEvents]_vars /\ WF_vars(EventsDeliver)

\* the pings that reached the events queue
Pings == {i \in 1..Len(broker) : Dotted(broker[i].key) = PingKey(proc.mode)}

\* the calls of Publish made for delivery i
PongsFor(i) == {j \in 1..Len(proc.pongs) : proc.pongs[j].n = i}

\* C37: every message of the events queue is acknowledged; the handler
\* calls Publish once, with a pong, for each ping it has handled and not at
\* all for any other message; a message the handler published is a pong
\* answering a ping of another client and is not itself answered, so the
\* queue never holds more than two messages per message other clients sent.
C37_PingTerminates ==
    /\ [](\A i \in 1..Len(broker) :
             /\ broker[i].state = "ready" => PongsFor(i) = {}
             /\ broker[i].state = "acked" =>
                    Cardinality(PongsFor(i)) = IF i \in Pings THEN 1 ELSE 0)
    /\ [](\A i \in 1..Len(broker) :
             broker[i].cause # 0 =>
                /\ i \notin Pings
                /\ broker[i].key = WordsOf(PongKey(proc.mode))
                /\ broker[i].cause \in Pings
                /\ broker[broker[i].cause].cause = 0)
    /\ [](Len(broker) <= 2 * proc.pings)
    /\ \A i \in 1..MaxEvents :
          (i <= Len(broker)) ~> (i <= Len(broker) /\ broker[i].state = "acked")

\* a ping was answered, its pong came back through the binding and was
\* acknowledged, and nothing was published for it
C37_Witness ==
    \E i \in 1..Len(broker) :
        /\ broker[i].cause # 0
        /\ broker[i].state = "acked"
        /\ \A j \in 1..Len(broker) : broker[j].state = "acked"
        /\ Len(proc.pongs) = 1
        /\ proc.pings = MaxPings

====
